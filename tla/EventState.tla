----------------------------- MODULE EventState -----------------------------
(***************************************************************************)
(* Event State Verification (ESV): the counters in the event header that   *)
(* tell whether the application may use an event, em_event_state.c, and    *)
(* the operations that move an event between the application and EM:       *)
(* alloc, free, send, dispatch, references, aggregation, the mark and      *)
(* unmark calls and packets from outside of EM.                            *)
(*                                                                         *)
(* The counters evgen, ref_cnt and send_cnt are fields of one 64-bit word  *)
(* that is updated by atomic adds and subtracts, so the adjustment that    *)
(* keeps evgen from wrapping is a second atomic step that other cores may  *)
(* come between when they hold references to the same event.  .ref below   *)
(* is REF_CNT_INIT - ref_cnt, .send is send_cnt - SEND_CNT_INIT, and .evgen*)
(* is the unbounded sum: what leaves the 16 bits upwards is taken up by    *)
(* the reserved field, below zero it borrows one from ref_cnt (see Word).  *)
(*                                                                         *)
(* The application is correct: it uses only events that it owns.  A        *)
(* reported error is thus a false alarm; that wrong use would be reported  *)
(* is stated over the handles an incorrect application could still hold.   *)
(***************************************************************************)
EXTENDS Integers, Sequences, SequencesExt, FiniteSets

CONSTANTS
  Cores,          \* EM-cores
  Events,         \* ODP events
  Packets,        \* those that are packets, others are buffers
  Prealloc,       \* esv.prealloc_pools
  EVGEN_INIT, EVGEN_MAX, Width,   \* 0x1000, 0xEFFF and 2^16 in the code
  MaxRefs,        \* bound: references to an event
  RevertRace,     \* a failed send may be reverted inside the wrap of another
  RefsInVectors   \* the application puts references into its own vectors

ASSUME EsvAssumption ==
  /\ EVGEN_INIT \in Nat /\ EVGEN_MAX \in Nat /\ Width \in Nat
  /\ 1 < EVGEN_INIT /\ EVGEN_INIT + 1 < EVGEN_MAX /\ EVGEN_MAX + 1 < Width
  /\ IsFiniteSet(Cores) /\ Packets \subseteq Events
  /\ MaxRefs \in Nat \ {0}
  /\ {Prealloc, RevertRace, RefsInVectors} \subseteq BOOLEAN

VARIABLES
  cnt,    \* ev_hdr->state_cnt
  refs,   \* ev_hdr->flags.refs_used
  aggr,   \* ev_hdr->flags.aggr_sent
  hdl,    \* .evgen of ev_hdr->event, the handle given to the application
  op,     \* ev_hdr->state.api_op, as far as the unmark calls look at it
  odp,    \* external: ODP's reference count, 0 when the event is in its pool
  at,     \* where the references are: number at each place
  call,   \* the call each core is in
  stale,  \* history: the last generations of handles that were given away
  alarm   \* a fatal ESV error has been reported

vars == <<cnt, refs, aggr, hdl, op, odp, at, call, stale, alarm>>

Period == EVGEN_MAX - EVGEN_INIT

\* with the application, in an EM queue, in an event aggregator, in a vector
\* of the application, marked as sent and marked as freed
Places == {"user", "queue", "aggregator", "vector", "marksend", "markfree"}
Nowhere == [p \in Places |-> 0]
NoCall  == [pc |-> "none", kind |-> "none", es |-> <<>>, i |-> 0]

\* evstate_cnt_t as the code reads it back from the word
Word(w) == [evgen |-> w.evgen % Width, send |-> w.send,
            ref |-> IF w.evgen < 0 THEN w.ref + 1 ELSE w.ref]
\* init_cnt_alloc
InitCnt == [evgen |-> EVGEN_INIT, ref |-> 1, send |-> 0]
Plus(w, evgen, ref, send) ==
  [evgen |-> w.evgen + evgen, ref |-> w.ref + ref, send |-> w.send + send]

Busy(e) == \E c \in Cores : \E i \in DOMAIN call[c].es : call[c].es[i] = e
Move(e, from, to) == [at EXCEPT ![e][from] = @ - 1, ![e][to] = @ + 1]

\* pool_prealloc(): every event initialised and freed once
Init ==
  /\ cnt = [e \in Events |-> [evgen |-> EVGEN_INIT + 1, ref |-> 0, send |-> 0]]
  /\ refs = [e \in Events |-> FALSE]
  /\ aggr = [e \in Events |-> FALSE]
  /\ hdl = [e \in Events |-> EVGEN_INIT]
  /\ op = [e \in Events |-> "other"]
  /\ odp = [e \in Events |-> 0]
  /\ at = [e \in Events |-> Nowhere]
  /\ call = [c \in Cores |-> NoCall]
  /\ stale = [e \in Events |-> <<>>]
  /\ alarm = FALSE

-----------------------------------------------------------------------------
(* State transitions of one event *)

\* The checks after a transition; new is the word as read back
BadEm2usr(new) == new.send >= new.ref \/ new.send < 0
\* Mutant: the generation of the handle is not compared
BadUsr2em_NoGen(new, h, isref) == new.send > new.ref \/ new.send < 0
BadUsr2em(new, h, isref) ==
  \/ new.send > new.ref \/ new.send < 0
  \/ ~isref /\ h # new.evgen

\* esv_em2usr(): the word becomes w; the handle takes its evgen unless the
\* event has or had references
EsvEm2usr(e, w) ==
  LET new == Word(w) IN
  /\ cnt' = [cnt EXCEPT ![e] = w]
  /\ alarm' = BadEm2usr(new)
  /\ IF refs[e] THEN UNCHANGED <<hdl, op>>
                ELSE /\ hdl' = [hdl EXCEPT ![e] = new.evgen]
                     /\ op' = [op EXCEPT ![e] = "other"]

\* esv_evinit(), esv_evinit_ext(): the counters start again
EsvEvinit(e) ==
  /\ cnt' = [cnt EXCEPT ![e] = InitCnt]
  /\ hdl' = [hdl EXCEPT ![e] = EVGEN_INIT]
  /\ op' = [op EXCEPT ![e] = "other"]
  /\ stale' = [stale EXCEPT ![e] = <<>>]
  /\ UNCHANGED alarm

\* Mutant: compares with EVGEN_MAX only after the increment was tested
Wraps_Late(w) == w.evgen % Width = EVGEN_MAX + 1
\* esv_usr2em(): the add made the event generation reach its maximum
Wraps(w) == w.evgen % Width = EVGEN_MAX

\* Mutant: a failed send at the first generation leaves evgen there
Unwraps_Never(w) == FALSE
\* esv_usr2em(..., is_revert): the subtract went below the first generation
Unwraps(w) == w.evgen % Width = EVGEN_INIT - 1

\* The word after the add of esv_usr2em() as its check sees it
Usr2emSeen(w) == [Word(w) EXCEPT !.evgen = @ - 1]

\* evstate_free(): one reference less
FreeAdd(w) == Plus(w, 1, -1, 0)
\* evstate_usr2em(): one more sent
SendAdd(w) == Plus(w, 1, 0, 1)
Adds(kind, w) == IF kind \in {"free", "markfree"} THEN FreeAdd(w) ELSE SendAdd(w)
\* evstate_free_revert(), evstate_usr2em_revert()
Subs(kind, w) == IF kind = "unmarkfree" THEN Plus(w, -1, 1, 0) ELSE Plus(w, -1, 0, -1)

\* evstate_update(..., is_extev): esv_update_ext() counts a generation; the
\* event has no other user, its steps are one
EsvUpdateExt(e) ==
  LET w == Plus(cnt[e], 1, 1, 0) IN
  EsvEm2usr(e, IF Wraps(w) THEN Plus(w, -Period, 0, 0) ELSE w)

\* The last generations of e with that of g, fewer than there are
Past(e, g) ==
  IF refs[e] THEN stale[e]
  ELSE LET s == Append(stale[e], g) IN IF Len(s) < Period THEN s ELSE Tail(s)
GaveAway(e) == Past(e, hdl[e])

-----------------------------------------------------------------------------
(* Events from a pool *)

\* evstate_alloc(), evhdr_init_pkt(): without preallocated state, as all
\* packets from pools that EM has not created, or after references
Reinit(e) == ~Prealloc \/ refs[e]

\* What event_alloc() and evhdr_init_pkt() do after evstate_...(): flags.all = 0
ClearFlags(e) ==
  /\ refs' = [refs EXCEPT ![e] = FALSE]
  /\ aggr' = [aggr EXCEPT ![e] = FALSE]
Taken(e) ==
  /\ odp[e] = 0 /\ ~alarm
  /\ odp' = [odp EXCEPT ![e] = 1]
  /\ at' = [at EXCEPT ![e].user = 1]
  /\ ClearFlags(e)
  /\ UNCHANGED call

\* em_alloc(), em_alloc_multi(); also em_odp_event2em() of a packet that the
\* application has allocated with ODP
Alloc(e) ==
  /\ Taken(e)
  /\ IF Reinit(e)
     THEN EsvEvinit(e)
     ELSE EsvEm2usr(e, Plus(cnt[e], 0, 1, 0)) /\ UNCHANGED stale

\* evhdr_init_pkt(): a packet from packet input is dispatched
ExtDispatch(e) ==
  /\ e \in Packets /\ Taken(e)
  /\ IF Reinit(e)
     THEN EsvEvinit(e)
     ELSE EsvUpdateExt(e) /\ stale' = [stale EXCEPT ![e] = Past(e, cnt[e].evgen)]

\* em_event_ref(): refs_used before the counters
EventRef(e) ==
  /\ e \in Packets /\ ~alarm /\ at[e].user > 0 /\ odp[e] < MaxRefs
  /\ odp' = [odp EXCEPT ![e] = @ + 1]
  /\ at' = [at EXCEPT ![e].user = @ + 1]
  /\ refs' = [refs EXCEPT ![e] = TRUE]
  /\ cnt' = [cnt EXCEPT ![e] = Plus(@, 0, 1, 0)]
  /\ alarm' = BadEm2usr(Word(cnt'[e]))
  /\ UNCHANGED <<aggr, hdl, op, call, stale>>

-----------------------------------------------------------------------------
(* Calls that give events to EM.  kind: send to a queue, sendaggr to an    *)
(* aggregator queue, free, marksend, markfree and the two unmark calls     *)

Kinds == {"send", "sendaggr", "free", "marksend", "markfree"}
Unmark == {"unmarksend", "unmarkfree"}

\* em_send(), em_send_multi(), em_free(), em_free_multi(), em_event_mark_...()
Call(c, kind, es) ==
  /\ call[c].pc = "none" /\ ~alarm
  /\ \A i \in DOMAIN es : at[es[i]].user > 0
  /\ call' = [call EXCEPT ![c] = [pc |-> "add", kind |-> kind, es |-> es, i |-> 1]]
  /\ at' = [e \in Events |-> IF e \in Range(es) THEN [at[e] EXCEPT !.user = @ - 1]
                                                ELSE at[e]]
  /\ UNCHANGED <<cnt, refs, aggr, hdl, op, odp, stale, alarm>>

NextPc(r) == IF r.i < Len(r.es) THEN [r EXCEPT !.pc = "add", !.i = @ + 1]
                                ELSE [r EXCEPT !.pc = "act", !.i = 1]

\* esv_usr2em(), esv_usr2em_multi(): the atomic add and the check, which uses
\* the value that the add returned.  Bound: no core stays between its two
\* atomic steps while others take evgen through the whole margin above
\* EVGEN_MAX, 4096 generations in the code.
Usr2em(c) ==
  LET r == call[c]  e == r.es[r.i]  w == Adds(r.kind, cnt[e]) IN
  /\ r.pc = "add" /\ ~alarm /\ w.evgen < Width
  /\ cnt' = [cnt EXCEPT ![e] = w]
  /\ alarm' = BadUsr2em(Usr2emSeen(w), hdl[e], refs[e])
  /\ op' = [op EXCEPT ![e] = IF refs[e] THEN @
                             ELSE IF r.kind \in {"marksend", "markfree"} THEN r.kind
                             ELSE "other"]
  /\ call' = [call EXCEPT ![c] = IF Wraps(w) THEN [r EXCEPT !.pc = "wrap"] ELSE NextPc(r)]
  /\ UNCHANGED <<refs, aggr, hdl, odp, at, stale>>

\* ... and back to EVGEN_INIT
Wrap(c) ==
  LET r == call[c]  e == r.es[r.i] IN
  /\ r.pc = "wrap" /\ ~alarm
  /\ cnt' = [cnt EXCEPT ![e] = Plus(@, -Period, 0, 0)]
  /\ call' = [call EXCEPT ![c] = NextPc(r)]
  /\ UNCHANGED <<refs, aggr, hdl, op, odp, at, stale, alarm>>

\* odp_event_free(): the last reference puts the event back into its pool
OdpFree(c) ==
  LET r == call[c]  e == r.es[r.i] IN
  /\ r.pc = "act" /\ r.kind = "free" /\ ~alarm
  /\ odp' = [odp EXCEPT ![e] = @ - 1]
  /\ stale' = [stale EXCEPT ![e] = GaveAway(e)]
  /\ call' = [call EXCEPT ![c] = IF r.i < Len(r.es) THEN [r EXCEPT !.i = @ + 1] ELSE NoCall]
  /\ UNCHANGED <<cnt, refs, aggr, hdl, op, at, alarm>>

\* send_aggr(), send_aggr_multi(): flag the events that are not references
SetAggrSent(es) ==
  aggr' = [e \in Events |-> IF e \in Range(es) /\ ~refs[e] THEN TRUE ELSE aggr[e]]

\* The flag is set before the enqueue
AggrFlag(c) ==
  LET r == call[c] IN
  /\ r.pc = "act" /\ r.kind = "sendaggr" /\ ~alarm
  /\ SetAggrSent(r.es)
  /\ call' = [call EXCEPT ![c].pc = "enq"]
  /\ UNCHANGED <<cnt, refs, hdl, op, odp, at, stale, alarm>>

\* Mutant: the flag stays with events that could not be enqueued
ClearAggrSent_Not(es) == UNCHANGED aggr
\* ... and cleared for those that could not be enqueued
ClearAggrSent(es) ==
  aggr' = [e \in Events |-> IF e \in es /\ ~refs[e] THEN FALSE ELSE aggr[e]]

\* The enqueue accepts the first n events, the rest is reverted: send_sched(),
\* send_local(), queue_unsched_enqueue(), send_aggr() and their _multi forms
Enqueue(c, n) ==
  LET r == call[c]
      done == {r.es[i] : i \in 1..n}
      place == IF r.kind = "send" THEN "queue" ELSE "aggregator"
  IN
  /\ r.pc = (IF r.kind = "sendaggr" THEN "enq" ELSE "act")
  /\ r.kind \in {"send", "sendaggr"} /\ ~alarm
  /\ n \in 0..Len(r.es)
  /\ at' = [e \in Events |-> IF e \in done THEN [at[e] EXCEPT ![place] = @ + 1] ELSE at[e]]
  /\ stale' = [e \in Events |-> IF e \in done THEN GaveAway(e) ELSE stale[e]]
  /\ ClearAggrSent(IF r.kind = "sendaggr" THEN Range(r.es) \ done ELSE {})
  /\ call' = [call EXCEPT ![c] = IF n = Len(r.es) THEN NoCall
                                 ELSE [r EXCEPT !.pc = "sub", !.i = n + 1]]
  /\ UNCHANGED <<cnt, refs, hdl, op, odp, alarm>>

\* em_event_mark_send/free() return
Marked(c) ==
  LET r == call[c]  e == r.es[1] IN
  /\ r.pc = "act" /\ r.kind \in {"marksend", "markfree"} /\ ~alarm
  /\ at' = [at EXCEPT ![e][r.kind] = @ + 1]
  /\ call' = [call EXCEPT ![c] = NoCall]
  /\ UNCHANGED <<cnt, refs, aggr, hdl, op, odp, stale, alarm>>

\* evstate_unmark_send/free(): only after a mark, which is not known of refs
UnmarkCall(c, kind, e) ==
  LET mark == IF kind = "unmarksend" THEN "marksend" ELSE "markfree" IN
  /\ call[c].pc = "none" /\ ~alarm /\ at[e][mark] > 0
  /\ at' = [at EXCEPT ![e][mark] = @ - 1]
  /\ alarm' = (~refs[e] /\ op[e] # mark)
  /\ call' = [call EXCEPT ![c] = [pc |-> "sub", kind |-> kind, es |-> <<e>>, i |-> 1]]
  /\ UNCHANGED <<cnt, refs, aggr, hdl, op, odp, stale>>

Reverted(c, e) ==
  LET r == call[c] IN
  /\ alarm' = BadUsr2em(Word(cnt'[e]), hdl[e], refs[e])
  /\ op' = [op EXCEPT ![e] = IF refs[e] THEN @ ELSE "other"]
  /\ at' = [at EXCEPT ![e].user = @ + 1]
  /\ call' = [call EXCEPT ![c] = IF r.i < Len(r.es) THEN [r EXCEPT !.pc = "sub", !.i = @ + 1]
                                 ELSE NoCall]

\* Another core is between its two atomic steps on e
Wrapping(c, e) ==
  \E d \in Cores \ {c} : call[d].pc \in {"wrap", "unwrap"} /\ call[d].es[call[d].i] = e

\* esv_usr2em(..., is_revert): the atomic subtract ...
Revert(c) ==
  LET r == call[c]  e == r.es[r.i]  w == Subs(r.kind, cnt[e]) IN
  /\ r.pc = "sub" /\ ~alarm
  /\ Wrapping(c, e) => RevertRace
  /\ cnt' = [cnt EXCEPT ![e] = w]
  /\ IF Unwraps(w)
     THEN call' = [call EXCEPT ![c].pc = "unwrap"] /\ UNCHANGED <<alarm, op, at>>
     ELSE Reverted(c, e)
  /\ UNCHANGED <<refs, aggr, hdl, odp, stale>>

\* ... and forward to the last generation; the check is on what this returns
Unwrap(c) ==
  LET r == call[c]  e == r.es[r.i] IN
  /\ r.pc = "unwrap" /\ ~alarm
  /\ cnt' = [cnt EXCEPT ![e] = Plus(@, Period, 0, 0)]
  /\ Reverted(c, e)
  /\ UNCHANGED <<refs, aggr, hdl, odp, stale>>

\* The application hands marked events over to ODP itself
DeliverMarked(e) ==
  /\ at[e].marksend > 0 /\ ~alarm
  /\ at' = Move(e, "marksend", "queue")
  /\ stale' = [stale EXCEPT ![e] = GaveAway(e)]
  /\ UNCHANGED <<cnt, refs, aggr, hdl, op, odp, call, alarm>>

FreeMarked(e) ==
  /\ at[e].markfree > 0 /\ ~alarm
  /\ at' = [at EXCEPT ![e].markfree = @ - 1]
  /\ odp' = [odp EXCEPT ![e] = @ - 1]
  /\ stale' = [stale EXCEPT ![e] = GaveAway(e)]
  /\ UNCHANGED <<cnt, refs, aggr, hdl, op, call, alarm>>

-----------------------------------------------------------------------------
(* Events that EM gives to the application *)

\* event_init_odp(): dispatch or dequeue of an event from an EM queue
Dispatch(e) ==
  /\ at[e].queue > 0 /\ ~alarm
  /\ at' = Move(e, "queue", "user")
  /\ EsvEm2usr(e, Plus(cnt[e], 0, 0, -1))
  /\ UNCHANGED <<refs, aggr, odp, call, stale>>

\* Mutant: only the flag tells what came through an aggregator
AggrInner_FlagOnly(e) ==
  IF ~aggr[e] THEN UNCHANGED <<cnt, alarm, hdl, op, aggr>>
  ELSE EsvEm2usr(e, Plus(cnt[e], 0, 0, -1)) /\ aggr' = [aggr EXCEPT ![e] = FALSE]
\* esv_aggr_inner_em2usr_one(): for each event of a vector that comes from a
\* queue with aggregators
AggrInner(e) ==
  IF ~refs[e] /\ ~aggr[e] THEN UNCHANGED <<cnt, alarm, hdl, op, aggr>>
  ELSE /\ EsvEm2usr(e, Plus(cnt[e], 0, 0, -1))
       /\ aggr' = [aggr EXCEPT ![e] = IF refs[e] THEN @ ELSE FALSE]

\* esv_aggr_inner_em2usr(): a vector of the aggregator is dispatched
DispatchAggr(e) ==
  /\ at[e].aggregator > 0 /\ ~alarm
  /\ at' = Move(e, "aggregator", "user")
  /\ AggrInner(e)
  /\ UNCHANGED <<refs, odp, call, stale>>

\* The application sends a vector of its own that holds e: the state of the
\* vector changes, that of its events does not
SendVector(e) ==
  /\ at[e].user > 0 /\ ~alarm
  /\ refs[e] => RefsInVectors
  /\ at' = Move(e, "user", "vector")
  /\ UNCHANGED <<cnt, refs, aggr, hdl, op, odp, call, stale, alarm>>

\* evhdr_init_evvec(): it is dispatched from a queue with aggregators
DispatchVector(e) ==
  /\ at[e].vector > 0 /\ ~alarm
  /\ at' = Move(e, "vector", "user")
  /\ AggrInner(e)
  /\ UNCHANGED <<refs, odp, call, stale>>

Batches == {<<e>> : e \in Events} \cup {s \in Events \X Events : s[1] # s[2]}

Next ==
  \/ \E e \in Events : \/ Alloc(e) \/ ExtDispatch(e) \/ EventRef(e)
                       \/ DeliverMarked(e) \/ FreeMarked(e) \/ Dispatch(e)
                       \/ DispatchAggr(e) \/ SendVector(e) \/ DispatchVector(e)
  \/ \E c \in Cores :
       \/ \E kind \in {"send", "sendaggr", "free"}, es \in Batches : Call(c, kind, es)
       \/ \E kind \in {"marksend", "markfree"}, e \in Events : Call(c, kind, <<e>>)
       \/ \E kind \in Unmark, e \in Events : UnmarkCall(c, kind, e)
       \/ Usr2em(c) \/ Wrap(c) \/ OdpFree(c) \/ AggrFlag(c) \/ Marked(c)
       \/ \E n \in 0..2 : Enqueue(c, n)
       \/ Revert(c) \/ Unwrap(c)

Spec == Init /\ [][Next]_vars

-----------------------------------------------------------------------------
(* Properties *)

\* Types: the handle always carries a generation between EVGEN_INIT and
\* EVGEN_MAX, and no event has more references than the bound
TypeOK ==
  /\ cnt \in [Events -> [evgen : Int, ref : Int, send : Int]]
  /\ refs \in [Events -> BOOLEAN] /\ aggr \in [Events -> BOOLEAN]
  /\ hdl \in [Events -> EVGEN_INIT..(EVGEN_MAX - 1)]
  /\ op \in [Events -> {"other", "marksend", "markfree"}]
  /\ odp \in [Events -> 0..MaxRefs]
  /\ at \in [Events -> [Places -> 0..MaxRefs]]
  /\ \A c \in Cores : call[c].kind \in Kinds \cup Unmark \cup {"none"}
  /\ alarm \in BOOLEAN

\* ESV never reports an error, which is fatal, to an application that uses
\* only events it owns: not when sends fail at either end of the generation
\* range, not for references used by several cores at once, not for events
\* that entered from outside (the checks of esv_usr2em() and esv_em2usr()).
NoFalseAlarm == ~alarm

\* While no call uses an event its counters say how many references exist and
\* how many are on their way, so an event in its pool has none of either.
CountersMatchHolders ==
  \A e \in Events \ (IF Prealloc THEN {} ELSE Events) : ~Busy(e) =>
    LET w == Word(cnt[e]) IN
    /\ w.ref = odp[e] - at[e].markfree
    /\ w.send = at[e].queue + at[e].aggregator + at[e].marksend

\* A send or free with handle h would be reported
Reported(e, h) ==
  \A kind \in {"send", "free"} : BadUsr2em(Usr2emSeen(Adds(kind, cnt[e])), h, refs[e])

\* Double free, double send, free after send and the like are reported: for
\* every handle given away during the last round of generations, and for
\* references as soon as the application holds none.
MisuseReported ==
  \A e \in Events : ~Busy(e) /\ ~alarm =>
    /\ ~refs[e] /\ at[e].marksend + at[e].markfree = 0 =>
         \A i \in DOMAIN stale[e] : Reported(e, stale[e][i])
    /\ refs[e] /\ at[e].user + at[e].vector = 0 => Reported(e, hdl[e])

\* The events of an application's own vector are in the state it left them,
\* none is taken for an aggregated one (esv_aggr_inner_em2usr_one())
AggrFlagInFlight ==
  \A e \in Events : aggr[e] /\ ~Busy(e) => at[e].aggregator > 0

\* The counter word, the handle and the flags of an event agree with where its
\* references are.
EsvInv == TypeOK /\ CountersMatchHolders /\ AggrFlagInFlight
=============================================================================
