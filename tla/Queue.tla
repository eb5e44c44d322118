------------------------------- MODULE Queue -------------------------------
(***************************************************************************)
(* Queue elements (em_queue.c, event_machine_queue.c and the packet input  *)
(* queues of event_machine_odp_ext.c): allocation from the static, dynamic *)
(* and aggregator pools, the steps of a create and how they are undone     *)
(* when one fails, delete, the aggregator children of a queue, the indexes *)
(* of output queues, the queue list of a queue group, the state that an EO *)
(* gives to a queue, and the priority map.                                  *)
(*                                                                         *)
(* A queue is the index of its element in the queue table.  There is one   *)
(* queue group.  The steps of a call are split where another core can see  *)
(* the difference: a pool, a counter, a list or an element that is in use. *)
(***************************************************************************)
EXTENDS Integers, Sequences, FiniteSets, FiniteSetsExt

CONSTANTS
  QCores,      \* the cores that create and delete queues
  StaticQ, DynQ, AggrQ,  \* the elements of the three pools
  NoQueue,
  MaxOutput,   \* EM_MAX_OUTPUT_QUEUES
  Params,      \* the types that are created, with the number of aggregators
  MaxAggr,     \* EM_QUEUE_MAX_AGGR
  QFails,      \* the calls that may fail
  DeleteAgain, \* a delete that failed may be tried again
  DeletePktin, \* packet input queues may be deleted
  PrioNum,     \* EM_QUEUE_PRIO_NUM; LOW, NORMAL and HIGH are 2, 4 and 6
  MaxPrio,     \* bound: priorities of the scheduler
  MaxQueueOps  \* bound: creates and deletes

Elems == StaticQ \cup DynQ \cup AggrQ

ASSUME QueueAssumption ==
  /\ IsFiniteSet(Elems) /\ Elems = 0..Cardinality(Elems) - 1 /\ NoQueue \notin Elems
  /\ IsFiniteSet(QCores)
  /\ StaticQ \cap DynQ = {} /\ (StaticQ \cup DynQ) \cap AggrQ = {}
  /\ Params \subseteq {"sched", "unsched", "local", "output", "pktin"} \X (0..MaxAggr)
  /\ QFails \subseteq {"odp", "aggr", "context", "output", "destroy"}
  /\ {DeleteAgain, DeletePktin} \subseteq BOOLEAN
  /\ {MaxOutput, MaxPrio} \subseteq Nat \ {0} /\ MaxAggr \in Nat /\ MaxQueueOps \in Nat
  /\ PrioNum = 8

VARIABLES
  qpool,     \* the elements in their pool
  qelem,     \* queue_elem_t
  odpQueue,  \* the ODP queue created for an element: "none", "empty" or "events"
  qcount,    \* queue_count
  outCount,  \* output_queue_count
  idxFree,   \* output_queue_idx_free
  listed,    \* queue_list of the queue group
  numQueues, \* num_queues of the queue group
  node,      \* queue_elem_t::qgrp_node: "zero", "in" or "self"
  nullNode,  \* a node was taken out of the list that was never in one
  qcall,     \* the call that each core is in
  half,      \* the queues whose delete has failed
  qops,      \* creates and deletes so far
  prioMap    \* queue_prio.map, with the scheduler's lowest and highest

NoQCall == [stage |-> "none", e |-> NoQueue, type |-> "none", n |-> 0, kids |-> <<>>, st |-> "INVALID"]
NewElem == [type |-> "undef", st |-> "INVALID", aggr |-> <<>>, parent |-> NoQueue, idx |-> 0, odp |-> FALSE]

qshared  == <<outCount, idxFree, listed, numQueues, node, nullNode>>
history == <<half, qops, prioMap>>
qvars   == <<qpool, qelem, odpQueue, qcount, qshared, qcall, history>>

\* queue_init()
QueueInit ==
  /\ qpool = Elems /\ qelem = [e \in Elems |-> NewElem]
  /\ odpQueue = [e \in Elems |-> "none"] /\ qcount = 0
  /\ outCount = 0 /\ idxFree = [i \in 0..MaxOutput - 1 |-> TRUE]
  /\ listed = {} /\ numQueues = 0 /\ node = [e \in Elems |-> "zero"] /\ nullNode = FALSE
  /\ qcall = [c \in QCores |-> NoQCall]
  /\ half = {} /\ qops = 0 /\ prioMap = <<>>

QInCall(e) == \E c \in QCores : qcall[c].e = e
Used       == Elems \ qpool
\* A queue that a create has returned and that no call is working on
Stable     == {e \in Used : ~QInCall(e) /\ qelem[e].type \notin {"undef", "aggr"}}
Lists(t)   == t \in {"sched", "pktin"}
To(c, s)   == qcall' = [qcall EXCEPT ![c].stage = s]
Return(c)  == qcall' = [qcall EXCEPT ![c] = NoQCall]

-----------------------------------------------------------------------------
(* Creating a queue *)

\* queue_create_check_args() and the functions it calls: event aggregation is
\* for scheduled and unscheduled queues only
AggrAllowed(type, n) == n = 0 \/ type \in {"sched", "unsched"}

\* queue_alloc(): any element of the dynamic pool, or the static one asked for
queue_alloc(c, e, type, n) ==
  /\ qcall[c] = NoQCall /\ qops < MaxQueueOps /\ qops' = qops + 1
  /\ e \in qpool \cap (DynQ \cup StaticQ) /\ (type = "pktin" => e \in DynQ)
  /\ AggrAllowed(type, n)
  /\ qpool' = qpool \ {e}
  /\ qcall' = [qcall EXCEPT ![c] = [NoQCall EXCEPT !.stage = "setup", !.e = e, !.type = type, !.n = n]]
  /\ UNCHANGED <<qelem, odpQueue, qcount, qshared, half, prioMap>>

\* queue_setup(), queue_setup_common() and the beginning of the functions for
\* the types; output.idx is the only field that keeps its value.  (It shares
\* memory with the aggregator fields, which may have been written since; what
\* it holds here is used only when the output queue finds no index that is
\* free, and that takes a create that failed with "output" before.)
Setup(c) ==
  LET e == qcall[c].e  t == qcall[c].type
      st == IF t \in {"unsched", "output"} THEN "UNSCHEDULED" ELSE "INIT"
  IN  /\ qcall[c].stage = "setup"
      /\ qcount' = qcount + 1
      /\ qelem' = [qelem EXCEPT ![e] = [NewElem EXCEPT !.type = t, !.idx = qelem[e].idx,
                                          !.odp = t = "pktin", !.st = st]]
      /\ outCount' = outCount + (IF t = "output" THEN 1 ELSE 0)
      /\ IF t = "local" THEN Return(c)
         ELSE To(c, IF t = "pktin" THEN "context"
                    ELSE IF t # "output" THEN "odp"
                    ELSE IF outCount + 1 > MaxOutput THEN "uncount" ELSE "index")
  /\ UNCHANGED <<qpool, odpQueue, idxFree, listed, numQueues, node, nullNode, history>>

\* pktin_event_queue2em(): odp_queue_context_set()
SetContext(c) ==
  /\ qcall[c].stage = "context"
  /\ Return(c) \/ ("context" \in QFails /\ To(c, "free"))
  /\ UNCHANGED <<qpool, qelem, odpQueue, qcount, qshared, history>>

FreeOutIdx == {i \in DOMAIN idxFree : idxFree[i]}

\* Mutant: the first index is given to everyone
TakeIndex_First(c) ==
  LET e == qcall[c].e
  IN  /\ qcall[c].stage = "index"
      /\ qelem' = [qelem EXCEPT ![e].idx = 0]
      /\ idxFree' = [idxFree EXCEPT ![0] = FALSE]
      /\ To(c, "odp") \/ ("output" \in QFails /\ To(c, "uncount"))
  /\ UNCHANGED <<qpool, odpQueue, qcount, outCount, listed, numQueues, node, nullNode, history>>

\* queue_setup_output(): the first free index, and the storage for the
\* function's arguments, whose allocation may fail
TakeIndex(c) ==
  LET e == qcall[c].e
  IN  /\ qcall[c].stage = "index"
      /\ IF FreeOutIdx = {} THEN UNCHANGED <<qelem, idxFree>>
         ELSE /\ qelem' = [qelem EXCEPT ![e].idx = Min(FreeOutIdx)]
              /\ idxFree' = [idxFree EXCEPT ![Min(FreeOutIdx)] = FALSE]
      /\ To(c, "odp") \/ ("output" \in QFails /\ To(c, "uncount"))
  /\ UNCHANGED <<qpool, odpQueue, qcount, outCount, listed, numQueues, node, nullNode, history>>

\* error_dec_cnt of queue_setup_output()
Uncount(c) ==
  /\ qcall[c].stage = "uncount" /\ To(c, "free")
  /\ outCount' = outCount - 1
  /\ UNCHANGED <<qpool, qelem, odpQueue, qcount, idxFree, listed, numQueues, node, nullNode, history>>

\* create_odp_queue()
CreateOdp(c) ==
  LET e == qcall[c].e  t == qcall[c].type
  IN  /\ qcall[c].stage = "odp"
      /\ \/ /\ odpQueue' = [odpQueue EXCEPT ![e] = "empty"]
            /\ qelem' = [qelem EXCEPT ![e].odp = TRUE]
            /\ IF qcall[c].n > 0 THEN To(c, "aggr")
               ELSE IF t = "sched" THEN To(c, "list") ELSE Return(c)
         \/ /\ IF t = "output" THEN "output" \in QFails /\ To(c, "uncount")
                               ELSE "odp" \in QFails /\ To(c, "free")
            /\ UNCHANGED <<odpQueue, qelem>>
  /\ UNCHANGED <<qpool, qcount, qshared, history>>

\* queue_aggr_free() of several
AggrFreed(q, kids) ==
  [e \in Elems |-> IF \E i \in DOMAIN kids : kids[i] = e
                   THEN [q[e] EXCEPT !.st = "INVALID", !.parent = NoQueue] ELSE q[e]]
Set(s) == {s[i] : i \in DOMAIN s}

\* queue_setup_aggr(): one element after the other ...
AllocAggr(c) ==
  /\ qcall[c].stage = "aggr" /\ Len(qcall[c].kids) < qcall[c].n
  /\ \E k \in qpool \cap AggrQ :
       /\ qpool' = qpool \ {k} /\ qcount' = qcount + 1
       /\ qcall' = [qcall EXCEPT ![c].kids = Append(@, k)]
  /\ UNCHANGED <<qelem, odpQueue, qshared, history>>

\* Mutant: the elements that were taken before are kept
AllocAggrFail_Keep(c) ==
  LET e == qcall[c].e  kids == qcall[c].kids
  IN  /\ qcall[c].stage = "aggr" /\ Len(kids) < qcall[c].n
      /\ qpool \cap AggrQ = {} \/ ("aggr" \in QFails /\ kids = <<>>)
      /\ odpQueue' = [odpQueue EXCEPT ![e] = "none"]
      /\ qelem' = [qelem EXCEPT ![e].odp = FALSE]
      /\ To(c, "free")
  /\ UNCHANGED <<qpool, qcount, qshared, history>>

\* Mutant: the ODP queue is kept
AllocAggrFail_Odp(c) ==
  LET e == qcall[c].e  kids == qcall[c].kids
  IN  /\ qcall[c].stage = "aggr" /\ Len(kids) < qcall[c].n
      /\ qpool \cap AggrQ = {} \/ ("aggr" \in QFails /\ kids = <<>>)
      /\ qpool' = qpool \cup Set(kids) /\ qcount' = qcount - Len(kids)
      /\ qelem' = AggrFreed(qelem, kids)
      /\ To(c, "free")
  /\ UNCHANGED <<odpQueue, qshared, history>>

\* ... which are given back when there are not enough of them, and the ODP
\* queue is destroyed
AllocAggrFail(c) ==
  LET e == qcall[c].e  kids == qcall[c].kids
  IN  /\ qcall[c].stage = "aggr" /\ Len(kids) < qcall[c].n
      /\ qpool \cap AggrQ = {} \/ ("aggr" \in QFails /\ kids = <<>>)
      /\ qpool' = qpool \cup Set(kids) /\ qcount' = qcount - Len(kids)
      /\ odpQueue' = [odpQueue EXCEPT ![e] = "none"]
      /\ qelem' = [AggrFreed(qelem, kids) EXCEPT ![e].odp = FALSE]
      /\ To(c, "free")
  /\ UNCHANGED <<qshared, history>>

SetupAggr(c) ==
  LET e == qcall[c].e  kids == qcall[c].kids
  IN  /\ qcall[c].stage = "aggr" /\ Len(kids) = qcall[c].n
      /\ qelem' = [x \in Elems |->
                     IF x = e THEN [qelem[e] EXCEPT !.aggr = kids]
                     ELSE IF x \in Set(kids)
                     THEN [NewElem EXCEPT !.type = "aggr", !.st = qelem[e].st, !.parent = e, !.odp = TRUE]
                     ELSE qelem[x]]
      /\ IF qcall[c].type = "sched" THEN To(c, "list") ELSE Return(c)
  /\ UNCHANGED <<qpool, odpQueue, qcount, qshared, history>>

\* queue_group_add_queue_list()
AddToList(c) ==
  LET e == qcall[c].e
  IN  /\ qcall[c].stage = "list" /\ Return(c)
      /\ listed' = listed \cup {e} /\ numQueues' = numQueues + 1
      /\ node' = [node EXCEPT ![e] = "in"]
  /\ UNCHANGED <<qpool, qelem, odpQueue, qcount, outCount, idxFree, nullNode, history>>

\* queue_free(): first the pool, then the count
queue_free(c) ==
  LET e == qcall[c].e
  IN  /\ qcall[c].stage = "free"
      /\ qelem' = [qelem EXCEPT ![e].st = "INVALID"]
      /\ qpool' = qpool \cup {e}
      /\ qcall' = [qcall EXCEPT ![c] = [NoQCall EXCEPT !.stage = "count"]]
      /\ half' = half \ {e}
  /\ UNCHANGED <<odpQueue, qcount, qshared, qops, prioMap>>

DecCount(c) ==
  /\ qcall[c].stage = "count" /\ Return(c)
  /\ qcount' = qcount - 1
  /\ UNCHANGED <<qpool, qelem, odpQueue, qshared, history>>

-----------------------------------------------------------------------------
(* Deleting a queue *)

\* em_queue_delete() and the checks of queue_delete()
em_queue_delete(c, e) ==
  LET t == qelem[e].type
  IN  /\ qcall[c] = NoQCall /\ qops < MaxQueueOps /\ qops' = qops + 1
      /\ e \in Stable /\ (t \in {"unsched", "output"} \/ qelem[e].st = "INIT")
      /\ DeleteAgain \/ e \notin half
      /\ DeletePktin \/ t # "pktin"
      /\ qcall' = [qcall EXCEPT ![c] =
                     [NoQCall EXCEPT !.e = e, !.type = t, !.n = Len(qelem[e].aggr),
                        !.stage = IF Lists(t) THEN "unlist" ELSE IF t = "output" THEN "drain"
                                  ELSE "destroy"]]
  /\ UNCHANGED <<qpool, qelem, odpQueue, qcount, qshared, half, prioMap>>

\* Mutant: the list is only looked at, the count always changed
RemFromList_Count(c) ==
  LET e == qcall[c].e
  IN  /\ qcall[c].stage = "unlist" /\ To(c, "destroy")
      /\ numQueues' = numQueues - 1
      /\ UNCHANGED <<listed, node, nullNode>>
  /\ UNCHANGED <<qpool, qelem, odpQueue, qcount, outCount, idxFree, history>>

\* queue_group_rem_queue_list(): nothing is done when the list is empty
RemFromList(c) ==
  LET e == qcall[c].e
  IN  /\ qcall[c].stage = "unlist" /\ To(c, "destroy")
      /\ IF listed = {} THEN UNCHANGED <<listed, numQueues, node, nullNode>>
         ELSE /\ listed' = listed \ {e} /\ numQueues' = numQueues - 1
              /\ node' = [node EXCEPT ![e] = "self"]
              /\ nullNode' = (nullNode \/ node[e] = "zero")
  /\ UNCHANGED <<qpool, qelem, odpQueue, qcount, outCount, idxFree, history>>

\* Mutant: the count is decremented once more
DrainOutput_Twice(c) ==
  LET e == qcall[c].e
  IN  /\ qcall[c].stage = "drain" /\ To(c, "destroy")
      /\ odpQueue' = [odpQueue EXCEPT ![e] = "empty"]
      /\ idxFree' = [idxFree EXCEPT ![qelem[e].idx] = TRUE] /\ outCount' = outCount - 2
  /\ UNCHANGED <<qpool, qelem, qcount, listed, numQueues, node, nullNode, history>>

\* An output queue is drained and its index given back
DrainOutput(c) ==
  LET e == qcall[c].e
  IN  /\ qcall[c].stage = "drain" /\ To(c, "destroy")
      /\ odpQueue' = [odpQueue EXCEPT ![e] = "empty"]
      /\ idxFree' = [idxFree EXCEPT ![qelem[e].idx] = TRUE] /\ outCount' = outCount - 1
  /\ UNCHANGED <<qpool, qelem, qcount, listed, numQueues, node, nullNode, history>>

\* odp_queue_destroy() fails when there are events in the queue; a packet
\* input queue stays
DestroyOdp(c) ==
  LET e == qcall[c].e
  IN  /\ qcall[c].stage = "destroy"
      /\ IF odpQueue[e] = "events"
         THEN Return(c) /\ half' = half \cup {e} /\ UNCHANGED <<odpQueue, qelem>>
         ELSE /\ To(c, IF qcall[c].n > 0 THEN "freeaggr" ELSE "free")
              /\ odpQueue' = [odpQueue EXCEPT ![e] = "none"]
              /\ qelem' = [qelem EXCEPT ![e].odp = FALSE] /\ UNCHANGED half
  /\ UNCHANGED <<qpool, qcount, qshared, qops, prioMap>>

\* queue_free_aggr_all()
FreeAggrAll(c) ==
  LET e == qcall[c].e  kids == qelem[e].aggr
  IN  /\ qcall[c].stage = "freeaggr" /\ To(c, "free")
      /\ qpool' = qpool \cup Set(kids) /\ qcount' = qcount - Len(kids)
      /\ qelem' = [AggrFreed(qelem, kids) EXCEPT ![e].aggr = <<>>]
  /\ UNCHANGED <<odpQueue, qshared, history>>

-----------------------------------------------------------------------------
(* The state of a queue, and its events *)

\* eo_add_queue() and eo_rem_queue(): only the queue itself
eo_add_queue(e) ==
  /\ e \in Stable /\ qelem[e].st = "INIT"
  /\ qelem' = [qelem EXCEPT ![e].st = "BIND"]
  /\ UNCHANGED <<qpool, odpQueue, qcount, qshared, qcall, history>>
eo_rem_queue(e) ==
  /\ e \in Stable /\ qelem[e].st = "BIND"
  /\ qelem' = [qelem EXCEPT ![e].st = "INIT"]
  /\ UNCHANGED <<qpool, odpQueue, qcount, qshared, qcall, history>>

\* queue_state_set() for queue_enable() and queue_disable() ...
queue_state_set(c, e, st) ==
  /\ qcall[c] = NoQCall /\ e \in Stable
  /\ <<qelem[e].st, st>> \in {<<"BIND", "READY">>, <<"READY", "BIND">>}
  /\ qelem' = [qelem EXCEPT ![e].st = st]
  /\ IF qelem[e].aggr = <<>> THEN UNCHANGED qcall
     ELSE qcall' = [qcall EXCEPT ![c] = [NoQCall EXCEPT !.stage = "kids", !.e = e, !.st = st]]
  /\ UNCHANGED <<qpool, odpQueue, qcount, qshared, history>>

\* Mutant: the children are only enabled
Propagate_Enable(c) ==
  LET kids == qelem[qcall[c].e].aggr
  IN  /\ qcall[c].stage = "kids" /\ Return(c)
      /\ qelem' = [x \in Elems |-> IF x \in Set(kids) THEN [qelem[x] EXCEPT !.st = "READY"]
                                                      ELSE qelem[x]]
  /\ UNCHANGED <<qpool, odpQueue, qcount, qshared, history>>

\* ... and its children
Propagate(c) ==
  LET kids == qelem[qcall[c].e].aggr
  IN  /\ qcall[c].stage = "kids" /\ Return(c)
      /\ qelem' = [x \in Elems |-> IF x \in Set(kids) THEN [qelem[x] EXCEPT !.st = qcall[c].st]
                                                      ELSE qelem[x]]
  /\ UNCHANGED <<qpool, odpQueue, qcount, qshared, history>>

Accepts(e) == e \in Used /\ qelem[e].st \in {"READY", "UNSCHEDULED"} /\ qelem[e].type # "output"
Target(e)  == IF qelem[e].type = "aggr" THEN qelem[e].parent ELSE e

\* An event is sent to a queue or one of its aggregators; it stays when the
\* queue is taken out of use
SendTo(e) ==
  /\ "destroy" \in QFails /\ Accepts(e) /\ Target(e) \in Elems
  /\ odpQueue[Target(e)] = "empty" /\ ~QInCall(Target(e))
  /\ odpQueue' = [odpQueue EXCEPT ![Target(e)] = "events"]
  /\ UNCHANGED <<qpool, qelem, qcount, qshared, qcall, history>>

\* The scheduler or em_queue_dequeue() takes the events
TakeFrom(e) ==
  /\ odpQueue[e] = "events"
  /\ odpQueue' = [odpQueue EXCEPT ![e] = "empty"]
  /\ UNCHANGED <<qpool, qelem, qcount, qshared, qcall, history>>

-----------------------------------------------------------------------------
(* Priorities *)

\* queue_init_prio_legacy(): def around NORMAL
prio_legacy(min, max, def) ==
  [i \in 0..PrioNum - 1 |-> IF i \in 3..5 THEN def ELSE IF i < PrioNum \div 2 THEN min ELSE max]

\* Mutant: the step is rounded up
prio_adaptive_Ceil(min, max) ==
  LET nump == max - min + 1
  IN  [i \in 0..PrioNum - 1 |-> IF i = PrioNum - 1 THEN max
                                ELSE min + i * ((nump + PrioNum - 1) \div PrioNum)]

\* queue_init_prio_adaptive(): the sum of the steps, rounded down
prio_adaptive(min, max) ==
  LET nump == max - min + 1
  IN  [i \in 0..PrioNum - 1 |-> IF i = PrioNum - 1 THEN max
                                ELSE (min * PrioNum + i * nump) \div PrioNum]

\* queue_init_prio_map(), for the two modes that compute a map, whatever the
\* priorities of the scheduler
queue_init_prio_map ==
  /\ QueueInit
  /\ \E min, max, def \in 0..MaxPrio :
       /\ min <= def /\ def <= max
       /\ prioMap' \in {[map |-> m, min |-> min, max |-> max] :
                        m \in {prio_legacy(min, max, def), prio_adaptive(min, max)}}
  /\ UNCHANGED <<qpool, qelem, odpQueue, qcount, qshared, qcall, half, qops>>

-----------------------------------------------------------------------------
QueueStep(c) ==
  \/ \E e \in Elems, p \in Params : queue_alloc(c, e, p[1], p[2])
  \/ Setup(c) \/ SetContext(c) \/ TakeIndex(c) \/ Uncount(c) \/ CreateOdp(c)
  \/ AllocAggr(c) \/ AllocAggrFail(c) \/ SetupAggr(c) \/ AddToList(c)
  \/ queue_free(c) \/ DecCount(c)
  \/ \E e \in Elems : em_queue_delete(c, e)
  \/ RemFromList(c) \/ DrainOutput(c) \/ DestroyOdp(c) \/ FreeAggrAll(c)
  \/ \E e \in Elems, st \in {"READY", "BIND"} : queue_state_set(c, e, st)
  \/ Propagate(c)

QueueNext ==
  /\ prioMap = <<>>
  /\ \/ \E c \in QCores : QueueStep(c)
     \/ \E e \in Elems : eo_add_queue(e) \/ eo_rem_queue(e) \/ SendTo(e) \/ TakeFrom(e)
     \/ queue_init_prio_map

QueueSpec == QueueInit /\ [][QueueNext]_qvars

-----------------------------------------------------------------------------
(* Properties *)

\* Types of the queue elements, the counts and the list of the queue group
QueueTypeOK ==
  /\ qpool \subseteq Elems /\ listed \subseteq Elems /\ half \subseteq Elems
  /\ \A e \in Elems :
       /\ qelem[e].st \in {"INVALID", "INIT", "BIND", "READY", "UNSCHEDULED"}
       /\ qelem[e].idx \in 0..MaxOutput - 1 /\ Len(qelem[e].aggr) <= MaxAggr
       /\ odpQueue[e] \in {"none", "empty", "events"}
  /\ qcount \in Nat /\ numQueues \in Nat
  /\ outCount \in 0..MaxOutput + Cardinality(QCores)

NoCalls == \A c \in QCores : qcall[c] = NoQCall
Kids(e) == Set(qelem[e].aggr)

\* However creates fail and deletes interleave, between calls every element out
\* of the pools is a queue somebody was given or an aggregator that its parent
\* knows, and the count is theirs.  At no time is it too small: em_queue_first()
\* finds nothing when it is 0
ElemsAccounted ==
  LET queues == Stable \cup UNION {Kids(e) : e \in Stable}
  IN  /\ Cardinality(queues) <= qcount
      /\ \A e \in Stable : \A k \in Kids(e) : k \in Used /\ qelem[k].parent = e
      /\ NoCalls => Used = queues /\ qcount = Cardinality(Used)

\* An element that is free or being set up has no ODP queue left over from its
\* last use, and the ODP queue of a queue in use exists
OdpQueuesAccounted ==
  /\ \A e \in qpool : odpQueue[e] = "none"
  /\ \A e \in Stable : qelem[e].type \in {"sched", "unsched", "output"} => odpQueue[e] # "none"

\* Two output queues never share an index, by which the cores remember which of
\* them to drain, and no index is lost
OutputIndexes ==
  LET outs == {e \in Stable : qelem[e].type = "output" /\ e \notin half}
  IN  /\ \A e, f \in outs : qelem[e].idx = qelem[f].idx => e = f
      /\ NoCalls => /\ outCount = Cardinality(outs)
                    /\ FreeOutIdx = DOMAIN idxFree \ {qelem[e].idx : e \in outs}

\* The list of a queue group tells whether it may be deleted: the queues of the
\* group are in it (but for those whose delete has failed and packet input
\* queues, which never are), nothing else is, and num_queues is their number
GroupListMatches ==
  /\ ~nullNode
  /\ numQueues = Cardinality(listed)
  /\ \A e \in Stable : qelem[e].type = "sched" /\ e \notin half => e \in listed
  /\ \A e \in listed : e \in Used /\ qelem[e].type = "sched"

\* An aggregator that is usable has a parent that exists and knows it, and it
\* accepts events exactly when its parent does, once the state change is over
AggrFollowsParent ==
  \A k \in Used \cap AggrQ :
    LET p == qelem[k].parent
    IN  /\ Accepts(k) => p \in Used /\ k \in Set(qelem[p].aggr)
        /\ p \in Stable => (Accepts(k) <=> Accepts(p))

\* A higher EM priority never has a lower priority in the scheduler, and the
\* highest one is the scheduler's highest
PrioMapMonotone ==
  prioMap # <<>> =>
    /\ \A i \in 1..PrioNum - 1 : prioMap.map[i - 1] <= prioMap.map[i]
    /\ prioMap.map[0] >= prioMap.min /\ prioMap.map[PrioNum - 1] = prioMap.max

\* Elements, ODP queues, output indexes, the list of the group and aggregators
\* are accounted for, however creates and deletes fail and interleave, and the
\* priority map keeps the order of priorities.
QueueInv ==
  /\ QueueTypeOK /\ ElemsAccounted /\ OdpQueuesAccounted /\ OutputIndexes
  /\ GroupListMatches /\ AggrFollowsParent /\ PrioMapMonotone
=============================================================================
