------------------------------- MODULE Output -------------------------------
(***************************************************************************)
(* A queue of type EM_QUEUE_TYPE_OUTPUT fed from an ordered queue          *)
(* (send_output(), send_output_multi(), output_queue_drain(),              *)
(* output_queue_buffering_drain()).  Events sent in an ordered context go  *)
(* through an ODP queue, which restores the order of the contexts; a core  *)
(* that has sent some drains that queue into the user's output function    *)
(* when its dispatch round ends, or at once (EM_OUTPUT_QUEUE_IMMEDIATE),   *)
(* if no other core is doing so.                                           *)
(*                                                                         *)
(* A context is a number, the place of its event in the ordered queue; an  *)
(* event sent to the output queue is its context and its place among the   *)
(* events that the context sends.                                          *)
(***************************************************************************)
EXTENDS Integers, Sequences, SequencesExt

CONSTANTS
  OutCores, NoCore,
  Contexts,    \* the number of events of the ordered queue
  MaxOut,      \* bound: events that a context sends to the output queue
  DeqMax,      \* deq_max
  Builds,      \* the values of EM_OUTPUT_QUEUE_IMMEDIATE
  MayDelete    \* the output queue may be deleted once the contexts are done

ASSUME OutputAssumption ==
  /\ NoCore \notin OutCores
  /\ {Contexts, MaxOut, DeqMax} \subseteq Nat \ {0}
  /\ Builds \subseteq BOOLEAN /\ MayDelete \in BOOLEAN

VARIABLES
  next,     \* the next context to be scheduled
  ctx,      \* the context that each core holds, 0: none
  type,     \* current.sched_context_type is ORDERED
  opc,      \* where each core is
  sent,     \* events sent in each context
  held,     \* what ODP keeps of each context until it is its turn
  turn,     \* the oldest context that is not released
  odpQueue, \* the ODP queue of the output queue
  track,    \* output_queue_track: this output queue was used
  outLock,  \* queue_elem_t::output.lock
  deqd,     \* the events that each core has dequeued and not yet output
  output,   \* what the output function was called with, in order
  direct,   \* of that, the events sent outside of an ordered context
  deleted,  \* the output queue is deleted
  immediate \* EM_OUTPUT_QUEUE_IMMEDIATE

ovars == <<next, ctx, type, opc, sent, held, turn, odpQueue, track, outLock, deqd,
           output, direct, deleted, immediate>>

OutputInit ==
  /\ next = 1 /\ turn = 1
  /\ ctx = [c \in OutCores |-> 0] /\ type = [c \in OutCores |-> FALSE]
  /\ opc = [c \in OutCores |-> "schedule"]
  /\ sent = [k \in 1..Contexts |-> 0] /\ held = [k \in 1..Contexts |-> <<>>]
  /\ odpQueue = <<>> /\ track = [c \in OutCores |-> FALSE] /\ outLock = NoCore
  /\ deqd = [c \in OutCores |-> <<>>] /\ output = <<>> /\ direct = {} /\ deleted = FALSE
  /\ immediate \in Builds

\* Releasing an ordered context: ODP waits for its turn and then enqueues what
\* it has kept of the context
Released(k) ==
  /\ k = turn /\ turn' = turn + 1
  /\ odpQueue' = odpQueue \o held[k]
  /\ held' = [held EXCEPT ![k] = <<>>]

\* odp_schedule_multi(): the context of the last round is released
ReleaseLast(c) ==
  /\ opc[c] = "schedule" /\ ctx[c] # 0
  /\ Released(ctx[c]) /\ ctx' = [ctx EXCEPT ![c] = 0]
  /\ UNCHANGED <<next, type, opc, sent, track, outLock, deqd, output, direct, deleted, immediate>>

\* ... and a new one is given to the core
Schedule(c) ==
  /\ opc[c] = "schedule" /\ ctx[c] = 0 /\ next <= Contexts
  /\ ctx' = [ctx EXCEPT ![c] = next] /\ next' = next + 1
  /\ type' = [type EXCEPT ![c] = TRUE] /\ opc' = [opc EXCEPT ![c] = "receive"]
  /\ UNCHANGED <<sent, held, turn, odpQueue, track, outLock, deqd, output, direct, deleted, immediate>>

\* em_ordered_processing_end()
em_ordered_processing_end(c) ==
  /\ opc[c] = "receive" /\ type[c]
  /\ Released(ctx[c])
  /\ ctx' = [ctx EXCEPT ![c] = 0] /\ type' = [type EXCEPT ![c] = FALSE]
  /\ UNCHANGED <<next, opc, sent, track, outLock, deqd, output, direct, deleted, immediate>>

\* odp_queue_enq() in an ordered context, which keeps the order in a context
Enqueue(k, e) ==
  LET all == Append(held[k], e)
  IN  IF k = turn THEN odpQueue' = odpQueue \o all /\ held' = [held EXCEPT ![k] = <<>>]
                  ELSE held' = [held EXCEPT ![k] = all] /\ UNCHANGED odpQueue

\* send_output() and send_output_multi() in an ordered context
send_output(c) ==
  /\ opc[c] = "receive" /\ type[c] /\ ~deleted
  /\ sent[ctx[c]] < MaxOut
  /\ sent' = [sent EXCEPT ![ctx[c]] = @ + 1]
  /\ Enqueue(ctx[c], <<ctx[c], sent'[ctx[c]]>>)
  /\ track' = [track EXCEPT ![c] = ~immediate]
  /\ opc' = [opc EXCEPT ![c] = IF immediate THEN "trylock" ELSE @]
  /\ UNCHANGED <<next, ctx, type, turn, outLock, deqd, output, direct, deleted, immediate>>

\* ... and without one: the output function is called at once
send_output_direct(c) ==
  /\ opc[c] = "receive" /\ ~type[c] /\ ~deleted
  /\ Len(output) < Contexts * MaxOut /\ direct = {}
  /\ output' = Append(output, <<0, Len(output) + 1>>)
  /\ direct' = direct \cup {<<0, Len(output) + 1>>}
  /\ UNCHANGED <<next, ctx, type, opc, sent, held, turn, odpQueue, track, outLock, deqd, deleted,
                 immediate>>

\* The EO receive function returns; dispatch_events() starts to drain
EndReceiveOut(c) ==
  /\ opc[c] = "receive"
  /\ opc' = [opc EXCEPT ![c] = IF track[c] THEN "trylock" ELSE "schedule"]
  /\ UNCHANGED <<next, ctx, type, sent, held, turn, odpQueue, track, outLock, deqd, output,
                 direct, deleted, immediate>>

Back(c) == IF immediate THEN "receive" ELSE "schedule"

\* Mutant: every core drains
TryLock_Always(c) ==
  /\ opc[c] = "trylock"
  /\ opc' = [opc EXCEPT ![c] = "drain"] /\ UNCHANGED <<outLock, track>>
  /\ UNCHANGED <<next, ctx, type, sent, held, turn, odpQueue, deqd, output, direct, deleted, immediate>>

\* output_queue_buffering_drain() and the end of send_output(): a core that does
\* not get the lock leaves the events to the one that has it
TryLock(c) ==
  /\ opc[c] = "trylock"
  /\ IF outLock = NoCore
     THEN outLock' = c /\ opc' = [opc EXCEPT ![c] = "drain"] /\ UNCHANGED track
     ELSE /\ track' = [track EXCEPT ![c] = FALSE] /\ opc' = [opc EXCEPT ![c] = Back(c)]
          /\ UNCHANGED outLock
  /\ UNCHANGED <<next, ctx, type, sent, held, turn, odpQueue, deqd, output, direct, deleted, immediate>>

\* output_queue_drain(): a batch at a time until the ODP queue is empty ...
Dequeue(c) ==
  /\ opc[c] = "drain" /\ deqd[c] = <<>> /\ odpQueue # <<>>
  /\ LET n == IF Len(odpQueue) < DeqMax THEN Len(odpQueue) ELSE DeqMax
     IN  /\ deqd' = [deqd EXCEPT ![c] = SubSeq(odpQueue, 1, n)]
         /\ odpQueue' = SubSeq(odpQueue, n + 1, Len(odpQueue))
  /\ UNCHANGED <<next, ctx, type, opc, sent, held, turn, track, outLock, output, direct, deleted, immediate>>

\* ... given to the output function, which takes them all (what it does not
\* take is freed)
CallOutput(c) ==
  /\ opc[c] = "drain" /\ deqd[c] # <<>>
  /\ output' = output \o deqd[c] /\ deqd' = [deqd EXCEPT ![c] = <<>>]
  /\ UNCHANGED <<next, ctx, type, opc, sent, held, turn, odpQueue, track, outLock, direct, deleted, immediate>>

\* A dequeue that finds nothing ends the drain
Drained(c) ==
  /\ opc[c] = "drain" /\ deqd[c] = <<>> /\ odpQueue = <<>>
  /\ opc' = [opc EXCEPT ![c] = "unlock"]
  /\ UNCHANGED <<next, ctx, type, sent, held, turn, odpQueue, track, outLock, deqd, output,
                 direct, deleted, immediate>>

\* Mutant: the lock stays taken
Unlock_Kept(c) ==
  /\ opc[c] = "unlock"
  /\ track' = [track EXCEPT ![c] = FALSE]
  /\ opc' = [opc EXCEPT ![c] = Back(c)]
  /\ UNCHANGED <<next, ctx, type, sent, held, turn, odpQueue, deqd, output,
                 direct, deleted, immediate, outLock>>

Unlock(c) ==
  /\ opc[c] = "unlock"
  /\ outLock' = NoCore /\ track' = [track EXCEPT ![c] = FALSE]
  /\ opc' = [opc EXCEPT ![c] = Back(c)]
  /\ UNCHANGED <<next, ctx, type, sent, held, turn, odpQueue, deqd, output, direct, deleted, immediate>>

AllDone ==
  turn > Contexts /\ \A c \in OutCores : opc[c] = "schedule"

\* Mutant: the queue is deleted with what it holds
queue_delete_Undrained ==
  /\ MayDelete /\ ~deleted /\ AllDone /\ outLock = NoCore
  /\ deleted' = TRUE
  /\ UNCHANGED <<next, ctx, type, opc, sent, held, turn, odpQueue, track, outLock, deqd, output, direct, immediate>>

\* queue_delete() of the output queue: what is left is drained
queue_delete ==
  /\ MayDelete /\ ~deleted /\ AllDone /\ outLock = NoCore
  /\ output' = output \o odpQueue /\ odpQueue' = <<>> /\ deleted' = TRUE
  /\ UNCHANGED <<next, ctx, type, opc, sent, held, turn, track, outLock, deqd, direct, immediate>>

OutputStep(c) ==
  \/ ReleaseLast(c) \/ Schedule(c) \/ em_ordered_processing_end(c)
  \/ send_output(c) \/ send_output_direct(c) \/ EndReceiveOut(c)
  \/ TryLock(c) \/ Dequeue(c) \/ CallOutput(c) \/ Drained(c) \/ Unlock(c)
OutputNext == (\E c \in OutCores : OutputStep(c)) \/ queue_delete

OutputSpec == OutputInit /\ [][OutputNext]_ovars

-----------------------------------------------------------------------------
(* Properties *)

Before(d, e) == d[1] < e[1] \/ (d[1] = e[1] /\ d[2] < e[2])

\* Types of the contexts and of the output queue; the core that drains it has
\* its lock
OutputTypeOK ==
  /\ next \in 1..Contexts + 1 /\ turn \in 1..Contexts + 1
  /\ \A c \in OutCores : ctx[c] \in 0..Contexts
  /\ outLock \in OutCores \cup {NoCore}
  /\ \A c \in OutCores : opc[c] \in {"drain", "unlock"} <=> outLock = c
  /\ \A i \in DOMAIN output : Len(output[i]) = 2

\* The output function gets the events that were sent in ordered contexts in
\* the order of the contexts and none of them twice, although they are sent on
\* several cores and each of those may be the one that outputs them
OutputInOrder ==
  \A i, j \in DOMAIN output :
    i < j /\ {output[i], output[j]} \cap direct = {} => Before(output[i], output[j])

\* When the queue is deleted nothing that was sent to it is left out
DeleteLeavesNothing ==
  deleted => \A k \in 1..Contexts : \A n \in 1..sent[k] : Contains(output, <<k, n>>)

\* A core that does not get the lock leaves its events to the core that drains
\* (output_queue_buffering_drain()): with all the contexts done and no core in a
\* drain, nothing is left in the queue
NothingLeftToDrain == AllDone => odpQueue = <<>>

\* Output is in the order of the contexts, and complete when the queue is
\* deleted.
OutputInv == OutputTypeOK /\ OutputInOrder /\ DeleteLeavesNothing
=============================================================================
