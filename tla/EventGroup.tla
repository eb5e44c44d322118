----------------------------- MODULE EventGroup -----------------------------
(***************************************************************************)
(* Event groups: fork-join counters shared by all EM cores.                *)
(*                                                                         *)
(* A group's state is one 64-bit word (egrp_counter_t: pre_cnt, post_cnt,  *)
(* applied, gen) updated by compare-and-swap, and a notification table     *)
(* that is NOT part of that word.  The loops whose load and successful     *)
(* compare-and-swap have no other shared access between them (pre-count,   *)
(* increment, assign, abort) are one step here: a failed iteration has no  *)
(* effect and a successful one is atomic.  The two loops that access the   *)
(* notification table between the load and the compare-and-swap            *)
(* (em_event_group_apply, post_count_decrement) are split at every shared  *)
(* access.  A copy of the table that overlaps a write of it is a data race *)
(* and may yield any mixture: Torn.                                        *)
(*                                                                         *)
(* EM_EVENT_GROUP_SAFE_MODE = 1 (the default) and EM_CHECK_LEVEL >= 2.     *)
(***************************************************************************)
EXTENDS Integers, FiniteSets

CONSTANTS
    Core,        \* EM cores
    Group,       \* the event group table (EM_MAX_EVENT_GROUPS elements)
    Event,       \* events the application owns or has sent
    UNDEF,       \* EM_EVENT_GROUP_UNDEF / NULL egrp_elem
    CntMax,      \* EGRP_CNT_MAX, 2^24 - 1 in the code
    GenMod,      \* 2^EGRP_GEN_BITS, 2^15 in the code
    MaxBatch,    \* most events in one call of an EO multi-receive function
    MaxCycles,   \* bound: successful applies of one group
    EmptyNotifs, \* whether apply may be given no notifications
    Recoverers   \* cores that run the recovery procedure (notif, abort)

ASSUME ConstAssumption ==
    /\ UNDEF \notin Group
    /\ CntMax \in Nat \ {0} /\ GenMod \in Nat \ {0} /\ GenMod >= 2
    /\ MaxBatch \in Nat \ {0} /\ MaxCycles \in Nat
    /\ EmptyNotifs \in BOOLEAN /\ Recoverers \subseteq Core
    /\ IsFiniteSet(Core) /\ IsFiniteSet(Event)

VARIABLES
    counts,      \* [Group -> egrp_counter_t]
    in_stash,    \* [Group -> BOOLEAN]: free in the stash
    notif,       \* [Group -> notification table contents]
    ev,          \* [Event -> header: where it is, egrp, egrp_gen]
    pc,          \* [Core -> what the core executes]
    inrcv,       \* [Core -> BOOLEAN]: inside an EO-receive function
    cur,         \* [Core -> locm->current.egrp_elem and .egrp_gen]
    rcv_multi_cnt, \* [Core -> locm->current.rcv_multi_cnt]
    op,          \* [Core -> local variables of the call in progress]
    saved,       \* [Core -> table returned by em_event_group_notif()]
    (* History: what really happened, for the properties only. *)
    cyc,         \* [Group -> number of successful applies]
    status,      \* [Group -> fate of the latest cycle]
    left,        \* [Group -> events of the cycle not handled yet]
    registered,  \* {<<group, cycle, table>>} given to a successful apply
    sent,        \* {<<group, cycle, table>>} notifications sent
    aborted,     \* {<<group, cycle>>} cycles ended by em_event_group_abort()
    freed        \* {<<group, table>>} saved tables an EM_OK abort released

codeVars == <<counts, in_stash, notif, ev, pc, inrcv, cur, rcv_multi_cnt, op, saved>>
histVars == <<cyc, status, left, registered, sent, aborted, freed>>
vars == <<codeVars, histVars>>

NoNotif == 0      \* num_notif = 0; table k > 0 was passed by the k'th apply
Torn == -1        \* a copy that overlapped a write

Tables == {NoNotif, Torn} \cup Nat

Counter == [pre : Nat, post : Nat, applied : BOOLEAN, gen : Nat]

PCs == {"idle", "rcv", "apply_load", "apply_write", "apply_cas", "del_free",
        "notif_copy", "post_load", "post_copy", "post_cas", "send"}

OpRec == [g : Group \cup {UNDEF}, num : Nat, tbl : Tables, old : Counter]

(* Values of variables the code does not read in that state. *)
NoCur == [egrp |-> UNDEF, gen |-> 0, cyc |-> 0]
NoHdr == [queued |-> FALSE, egrp |-> UNDEF, gen |-> 0, cyc |-> 0]
NoCounter == [pre |-> 0, post |-> 0, applied |-> FALSE, gen |-> 0]

(* The local variables of a call: its group, count and notification table,  *)
(* and the last loaded counter word.                                        *)
Call(g, num, tbl, old) == [g |-> g, num |-> num, tbl |-> tbl, old |-> old]
NoOp == Call(UNDEF, 0, NoNotif, NoCounter)
Loaded(o, cnt) == Call(o.g, o.num, o.tbl, cnt)
Copied(o, tbl) == Call(o.g, o.num, tbl, o.old)

\* Types of the counter words, tables, event tags and calls in progress
TypeOK ==
    /\ counts \in [Group -> Counter]
    /\ \A g \in Group : counts[g].pre <= CntMax /\ counts[g].post <= CntMax
                        /\ counts[g].gen < GenMod
    /\ in_stash \in [Group -> BOOLEAN]
    /\ notif \in [Group -> Tables]
    /\ ev \in [Event -> [queued : BOOLEAN, egrp : Group \cup {UNDEF}, gen : Nat, cyc : Nat]]
    /\ pc \in [Core -> PCs]
    /\ inrcv \in [Core -> BOOLEAN]
    /\ cur \in [Core -> [egrp : Group \cup {UNDEF}, gen : Nat, cyc : Nat]]
    /\ rcv_multi_cnt \in [Core -> 0..MaxBatch]
    /\ op \in [Core -> OpRec]
    /\ saved \in [Core -> Tables]
    /\ cyc \in [Group -> Nat]
    /\ status \in [Group -> {"none", "active", "completed", "aborted"}]
    /\ left \in [Group -> Int]
    /\ registered \subseteq Group \X Nat \X Tables
    /\ sent \subseteq Group \X Nat \X Tables
    /\ aborted \subseteq Group \X Nat
    /\ freed \subseteq Group \X Tables

-----------------------------------------------------------------------------
(* event_group_init(): every element zeroed and put in the stash. *)
Init ==
    /\ counts = [g \in Group |-> NoCounter]
    /\ in_stash = [g \in Group |-> TRUE]
    /\ notif = [g \in Group |-> NoNotif]
    /\ ev = [e \in Event |-> NoHdr]
    /\ pc = [c \in Core |-> "idle"]
    /\ inrcv = [c \in Core |-> FALSE]
    /\ cur = [c \in Core |-> NoCur]
    /\ rcv_multi_cnt = [c \in Core |-> 0]
    /\ op = [c \in Core |-> NoOp]
    /\ saved = [c \in Core |-> NoNotif]
    /\ cyc = [g \in Group |-> 0]
    /\ status = [g \in Group |-> "none"]
    /\ left = [g \in Group |-> 0]
    /\ registered = {}
    /\ sent = {}
    /\ aborted = {}
    /\ freed = {}

(* The core executes application code and may call the API. *)
AppRuns(c) == pc[c] \in {"idle", "rcv"}

BackToApp(c) == IF inrcv[c] THEN "rcv" ELSE "idle"

OwnerSteps == {"apply_load", "apply_write", "apply_cas", "del_free"}

(* The documented contract of apply and delete: once per cycle, and never   *)
(* on a group that another core is applying or deleting.                    *)
OwnerFree(g) == \A c \in Core : pc[c] \in OwnerSteps => op[c].g # g

(* The tags that a wrapped generation could make look current again.  The   *)
(* 15-bit generation only separates the last GenMod cycles; the application *)
(* has drained older events before it applies once more.                    *)
NoAncientTags(g) ==
    /\ \A e \in Event : ev[e].queued /\ ev[e].egrp = g => cyc[g] + 1 < ev[e].cyc + GenMod
    /\ \A c \in Core : cur[c].egrp = g => cyc[g] + 1 < cur[c].cyc + GenMod

-----------------------------------------------------------------------------
(* event_group_alloc() and event_group_free(): the stash of free elements. *)
GroupAlloc(g) == in_stash[g] /\ in_stash' = [in_stash EXCEPT ![g] = FALSE]
GroupFree(g) == ~in_stash[g] /\ in_stash' = [in_stash EXCEPT ![g] = TRUE]

ZeroedCounter(cnt) == [pre |-> 0, post |-> 0, applied |-> FALSE, gen |-> cnt.gen]

(* em_event_group_create(): the counts are zeroed, the generation is kept. *)
EventGroupCreate(c, g) ==
    /\ AppRuns(c)
    /\ GroupAlloc(g)
    /\ counts' = [counts EXCEPT ![g] = ZeroedCounter(@)]
    /\ UNCHANGED <<notif, ev, pc, inrcv, cur, rcv_multi_cnt, op, saved, histVars>>

(* em_event_group_delete(), the checks: allocated and not applied. *)
EventGroupDelete(c, g) ==
    /\ AppRuns(c)
    /\ ~in_stash[g] /\ OwnerFree(g)
    /\ ~counts[g].applied
    /\ op' = [op EXCEPT ![c] = Call(g, 0, NoNotif, NoCounter)]
    /\ pc' = [pc EXCEPT ![c] = "del_free"]
    /\ UNCHANGED <<counts, in_stash, notif, ev, inrcv, cur, rcv_multi_cnt, saved, histVars>>

(* em_event_group_delete(), the effect: num_notif = 0, event_group_free(). *)
EventGroupFree(c) ==
    /\ pc[c] = "del_free"
    /\ notif' = [notif EXCEPT ![op[c].g] = NoNotif]
    /\ GroupFree(op[c].g)
    /\ pc' = [pc EXCEPT ![c] = BackToApp(c)]
    /\ op' = [op EXCEPT ![c] = NoOp]
    /\ UNCHANGED <<counts, ev, inrcv, cur, rcv_multi_cnt, saved, histVars>>

(* The table is named after the apply it is given to; em_notif_t tables may *)
(* be empty.                                                                *)
NotifArgs(g) == IF EmptyNotifs THEN {NoNotif, cyc[g] + 1} ELSE {cyc[g] + 1}

(* em_event_group_apply(): the call, with its arguments. *)
EventGroupApply(c, g, count, tbl) ==
    /\ AppRuns(c)
    /\ ~in_stash[g] /\ OwnerFree(g)
    /\ cyc[g] < MaxCycles /\ NoAncientTags(g)
    /\ count \in 1..CntMax
    /\ tbl \in NotifArgs(g)
    /\ op' = [op EXCEPT ![c] = Call(g, count, tbl, NoCounter)]
    /\ pc' = [pc EXCEPT ![c] = "apply_load"]
    /\ UNCHANGED <<counts, in_stash, notif, ev, inrcv, cur, rcv_multi_cnt, saved, histVars>>

(* ... BAD_STATE when the previous cycle has not ended. *)
ApplyBadState(c) ==
    /\ pc[c] = "apply_load"
    /\ counts[op[c].g].applied
    /\ pc' = [pc EXCEPT ![c] = BackToApp(c)]
    /\ op' = [op EXCEPT ![c] = NoOp]
    /\ UNCHANGED <<counts, in_stash, notif, ev, inrcv, cur, rcv_multi_cnt, saved, histVars>>

(* ... the load of the counter word. *)
ApplyLoad(c) ==
    /\ pc[c] = "apply_load"
    /\ ~counts[op[c].g].applied
    /\ pc' = [pc EXCEPT ![c] = "apply_write"]
    /\ op' = [op EXCEPT ![c] = Loaded(@, counts[op[c].g])]
    /\ UNCHANGED <<counts, in_stash, notif, ev, inrcv, cur, rcv_multi_cnt, saved, histVars>>

(* ... the notification table is written before the word is swapped. *)
ApplyWrite(c) ==
    /\ pc[c] = "apply_write"
    /\ notif' = [notif EXCEPT ![op[c].g] = op[c].tbl]
    /\ pc' = [pc EXCEPT ![c] = "apply_cas"]
    /\ UNCHANGED <<counts, in_stash, ev, inrcv, cur, rcv_multi_cnt, op, saved, histVars>>

(* A plausible bug: the generation stays. *)
AppliedCounter_SameGen(old, count) ==
    [pre |-> count, post |-> count, applied |-> TRUE, gen |-> old.gen]

AppliedCounter(old, count) ==
    [pre |-> count, post |-> count, applied |-> TRUE, gen |-> (old.gen + 1) % GenMod]

(* ... the compare-and-swap succeeds: the cycle has started. *)
ApplyStarts(c) ==
    LET g == op[c].g IN
    /\ pc[c] = "apply_cas"
    /\ counts[g] = op[c].old
    /\ counts' = [counts EXCEPT ![g] = AppliedCounter(op[c].old, op[c].num)]
    /\ cyc' = [cyc EXCEPT ![g] = @ + 1]
    /\ status' = [status EXCEPT ![g] = "active"]
    /\ left' = [left EXCEPT ![g] = op[c].num]
    /\ registered' = registered \cup {<<g, cyc[g] + 1, op[c].tbl>>}
    /\ pc' = [pc EXCEPT ![c] = BackToApp(c)]
    /\ op' = [op EXCEPT ![c] = NoOp]
    /\ UNCHANGED <<in_stash, notif, ev, inrcv, cur, rcv_multi_cnt, saved, sent, aborted, freed>>

(* ... or another core changed the word: another round. *)
ApplyRetries(c) ==
    /\ pc[c] = "apply_cas"
    /\ pc' = [pc EXCEPT ![c] = "apply_load"]
    /\ UNCHANGED <<counts, in_stash, notif, ev, inrcv, cur, rcv_multi_cnt, op, saved, histVars>>

ApplyCas(c) ==
    /\ pc[c] = "apply_cas"
    /\ IF counts[op[c].g] = op[c].old THEN ApplyStarts(c) ELSE ApplyRetries(c)

-----------------------------------------------------------------------------
(* egrp_tag_event(): the group and its generation at the time of the send. *)
EgrpTagEvent(g) ==
    IF g = UNDEF THEN [queued |-> TRUE, egrp |-> UNDEF, gen |-> 0, cyc |-> 0]
    ELSE [queued |-> TRUE, egrp |-> g, gen |-> counts[g].gen, cyc |-> cyc[g]]

(* em_send_group(), em_send_group_multi(): tagged and enqueued. *)
SendGroup(c, e, g) ==
    /\ AppRuns(c)
    /\ ~ev[e].queued
    /\ g # UNDEF => ~in_stash[g]
    /\ ev' = [ev EXCEPT ![e] = EgrpTagEvent(g)]
    /\ UNCHANGED <<counts, in_stash, notif, pc, inrcv, cur, rcv_multi_cnt, op, saved, histVars>>

(* The head of a burst of which count_same_evgroup() hands the first        *)
(* events, all with the same group and generation, to one receive call.     *)
SameEvgroup(B, e) ==
    \A f \in B : ev[f].egrp = ev[e].egrp /\ ev[f].gen = ev[e].gen

(* Plausible bug: the generation of the event is not compared. *)
ValidPreCnt_NoGen(cnt, decr, gen) == cnt.pre >= decr /\ cnt.applied

(* Plausible bug: excess events are not told from counted ones. *)
ValidPreCnt_NoCount(cnt, decr, gen) == cnt.applied /\ cnt.gen = gen

ValidPreCnt(cnt, decr, gen) == cnt.pre >= decr /\ cnt.applied /\ cnt.gen = gen

TakePre(cnt, n) ==
    [pre |-> cnt.pre - n, post |-> cnt.post, applied |-> cnt.applied, gen |-> cnt.gen]

(* The dispatcher up to the call of the EO-receive function: a batch leaves *)
(* the queues and rcv_multi_cnt is set.                                     *)
Receive(c, B, e) ==
    /\ pc[c] = "idle"
    /\ \A f \in B : ev[f].queued
    /\ Cardinality(B) <= MaxBatch /\ SameEvgroup(B, e)
    /\ ev' = [f \in Event |-> IF f \in B THEN NoHdr ELSE ev[f]]
    /\ pc' = [pc EXCEPT ![c] = "rcv"]
    /\ inrcv' = [inrcv EXCEPT ![c] = TRUE]
    /\ rcv_multi_cnt' = [rcv_multi_cnt EXCEPT ![c] = Cardinality(B)]
    /\ UNCHANGED <<in_stash, notif, op, saved, histVars>>

(* event_group_set_local() of events of no group: an early return that      *)
(* leaves current.egrp_elem alone.                                          *)
DispatchUntagged(c, B, e) ==
    /\ Receive(c, B, e)
    /\ ev[e].egrp = UNDEF
    /\ UNCHANGED <<counts, cur>>

(* ... of events that pass pre_count_decrement(). *)
DispatchCounted(c, B, e) ==
    LET g == ev[e].egrp IN
    /\ Receive(c, B, e)
    /\ g # UNDEF /\ ValidPreCnt(counts[g], Cardinality(B), ev[e].gen)
    /\ counts' = [counts EXCEPT ![g] = TakePre(@, Cardinality(B))]
    /\ cur' = [cur EXCEPT ![c] = [egrp |-> g, gen |-> ev[e].gen, cyc |-> ev[e].cyc]]

(* ... of expired or excess events: received without a current group. *)
DispatchExpired(c, B, e) ==
    LET g == ev[e].egrp IN
    /\ Receive(c, B, e)
    /\ g # UNDEF /\ ~ValidPreCnt(counts[g], Cardinality(B), ev[e].gen)
    /\ cur' = [cur EXCEPT ![c] = NoCur]
    /\ UNCHANGED counts

Dispatch(c, B, e) ==
    DispatchUntagged(c, B, e) \/ DispatchCounted(c, B, e) \/ DispatchExpired(c, B, e)

(* Plausible bug: no overflow check. *)
IncrementFits_None(cnt, n) == TRUE

IncrementFits(cnt, n) == cnt.pre + n <= CntMax /\ cnt.post + n <= CntMax

AddBoth(cnt, n) ==
    [pre |-> cnt.pre + n, post |-> cnt.post + n, applied |-> cnt.applied, gen |-> cnt.gen]

(* em_event_group_increment(): only for the cycle of the current event. *)
EventGroupIncrement(c, n) ==
    LET g == cur[c].egrp IN
    /\ pc[c] = "rcv" /\ g # UNDEF
    /\ n \in 1..(CntMax - 1)
    /\ ~in_stash[g]
    /\ counts[g].gen = cur[c].gen /\ counts[g].applied
    /\ IncrementFits(counts[g], n)
    /\ counts' = [counts EXCEPT ![g] = AddBoth(@, n)]
    /\ left' = [left EXCEPT ![g] = @ + n]
    /\ UNCHANGED <<in_stash, notif, ev, pc, inrcv, cur, rcv_multi_cnt, op, saved,
                   cyc, status, registered, sent, aborted, freed>>

(* em_event_group_assign(): an untagged received batch joins a group. *)
EventGroupAssign(c, g) ==
    LET n == rcv_multi_cnt[c] IN
    /\ pc[c] = "rcv" /\ cur[c].egrp = UNDEF
    /\ ~in_stash[g]
    /\ counts[g].pre >= n /\ counts[g].applied
    /\ counts' = [counts EXCEPT ![g] = TakePre(@, n)]
    /\ cur' = [cur EXCEPT ![c] = [egrp |-> g, gen |-> counts[g].gen, cyc |-> cyc[g]]]
    /\ UNCHANGED <<in_stash, notif, ev, pc, inrcv, rcv_multi_cnt, op, saved, histVars>>

(* em_event_group_processing_end(): the count is decremented early. *)
EventGroupProcessingEnd(c) ==
    /\ pc[c] = "rcv" /\ cur[c].egrp # UNDEF
    /\ pc' = [pc EXCEPT ![c] = "post_load"]
    /\ op' = [op EXCEPT ![c] = Call(cur[c].egrp, rcv_multi_cnt[c], NoNotif, NoCounter)]
    /\ UNCHANGED <<counts, in_stash, notif, ev, inrcv, cur, rcv_multi_cnt, saved, histVars>>

(* The EO-receive function returns to the dispatcher (call_eo_rcv_fn(),     *)
(* call_eo_multircv_fn() and their variants without callbacks), without ... *)
ReturnUncounted(c) ==
    /\ pc[c] = "rcv" /\ cur[c].egrp = UNDEF
    /\ inrcv' = [inrcv EXCEPT ![c] = FALSE]
    /\ pc' = [pc EXCEPT ![c] = "idle"]
    /\ UNCHANGED <<counts, in_stash, notif, ev, cur, rcv_multi_cnt, op, saved, histVars>>

(* ... or with a current event group to decrement. *)
ReturnCounted(c) ==
    /\ pc[c] = "rcv" /\ cur[c].egrp # UNDEF
    /\ inrcv' = [inrcv EXCEPT ![c] = FALSE]
    /\ pc' = [pc EXCEPT ![c] = "post_load"]
    /\ op' = [op EXCEPT ![c] = Call(cur[c].egrp, rcv_multi_cnt[c], NoNotif, NoCounter)]
    /\ UNCHANGED <<counts, in_stash, notif, ev, cur, rcv_multi_cnt, saved, histVars>>

ReceiveReturn(c) == ReturnUncounted(c) \/ ReturnCounted(c)

-----------------------------------------------------------------------------
(* post_count_decrement() and event_group_count_decrement(). *)
(* Plausible bugs: the generation is not compared; an off-by-one. *)
ValidPostCnt_NoGen(cnt, decr, gen) == cnt.post >= decr
ValidPostCnt_Strict(cnt, decr, gen) == cnt.post > decr /\ cnt.gen = gen

ValidPostCnt(cnt, decr, gen) == cnt.post >= decr /\ cnt.gen = gen

(* The caller's "current.egrp_elem = NULL" and its return. *)
CountDecrementReturns(c) ==
    /\ cur' = [cur EXCEPT ![c] = NoCur]
    /\ pc' = [pc EXCEPT ![c] = BackToApp(c)]
    /\ op' = [op EXCEPT ![c] = NoOp]

(* History: a batch of the running cycle has been handled. *)
Handles(c, g) == cur[c].cyc = cyc[g] /\ status[g] = "active"

HandledBy(c, g) == [left EXCEPT ![g] = IF Handles(c, g) THEN @ - op[c].num ELSE @]

(* The load finds the cycle gone: nothing is decremented or sent. *)
PostExpired(c) ==
    LET g == op[c].g IN
    /\ pc[c] = "post_load"
    /\ ~ValidPostCnt(counts[g], op[c].num, cur[c].gen)
    /\ CountDecrementReturns(c)
    /\ left' = HandledBy(c, g)
    /\ UNCHANGED <<counts, in_stash, notif, ev, inrcv, rcv_multi_cnt, saved,
                   cyc, status, registered, sent, aborted, freed>>

PostLoad(c) ==
    LET g == op[c].g IN
    /\ pc[c] = "post_load"
    /\ ValidPostCnt(counts[g], op[c].num, cur[c].gen)
    /\ op' = [op EXCEPT ![c] = Loaded(@, counts[g])]
    /\ pc' = [pc EXCEPT ![c] = IF counts[g].post = op[c].num THEN "post_copy" ELSE "post_cas"]
    /\ UNCHANGED <<counts, in_stash, notif, ev, inrcv, cur, rcv_multi_cnt, saved, histVars>>

BeingWritten(g) == \E d \in Core : pc[d] = "apply_write" /\ op[d].g = g

TableReads(g) == IF BeingWritten(g) THEN {notif[g], Torn} ELSE {notif[g]}

(* The last event: the table is copied before .applied is cleared. *)
PostCopy(c) ==
    /\ pc[c] = "post_copy"
    /\ \E t \in TableReads(op[c].g) : op' = [op EXCEPT ![c] = Copied(@, t)]
    /\ pc' = [pc EXCEPT ![c] = "post_cas"]
    /\ UNCHANGED <<counts, in_stash, notif, ev, inrcv, cur, rcv_multi_cnt, saved, histVars>>

(* Plausible bug: .applied is left set for the sender of the notifications. *)
DecrementedCounter_Applied(old, decr) == [old EXCEPT !.post = @ - decr]

DecrementedCounter(old, decr) ==
    [pre |-> old.pre, post |-> old.post - decr, gen |-> old.gen,
     applied |-> old.applied /\ old.post # decr]

(* The compare-and-swap compares the whole 64-bit word.                     *)
(* Plausible bugs: separate counters, so not the generation or not the flag *)
SameWord_NoGen(now, old) == now.post = old.post /\ now.applied = old.applied
SameWord_OnlyGen(now, old) == now.gen = old.gen

SameWord(now, old) == now = old

(* Another core changed the word since the load. *)
PostRetry(c) ==
    /\ pc[c] = "post_cas"
    /\ ~SameWord(counts[op[c].g], op[c].old)
    /\ pc' = [pc EXCEPT ![c] = "post_load"]
    /\ op' = [op EXCEPT ![c] = Copied(@, NoNotif)]
    /\ UNCHANGED <<counts, in_stash, notif, ev, inrcv, cur, rcv_multi_cnt, saved, histVars>>

(* The successful compare-and-swap. *)
PostSwap(c) ==
    LET g == op[c].g IN
    /\ pc[c] = "post_cas"
    /\ SameWord(counts[g], op[c].old)
    /\ counts' = [counts EXCEPT ![g] = DecrementedCounter(op[c].old, op[c].num)]
    /\ left' = HandledBy(c, g)
    /\ UNCHANGED <<in_stash, notif, ev, inrcv, rcv_multi_cnt, saved,
                   cyc, registered, sent, aborted, freed>>

(* Not the last event of the group. *)
PostCas(c) ==
    /\ PostSwap(c)
    /\ op[c].old.post # op[c].num
    /\ CountDecrementReturns(c)
    /\ UNCHANGED status

(* The last one: .applied was cleared, the copied table is sent next. *)
PostCasLast(c) ==
    /\ PostSwap(c)
    /\ op[c].old.post = op[c].num
    /\ op[c].tbl # NoNotif
    /\ status' = [status EXCEPT ![op[c].g] = "completed"]
    /\ pc' = [pc EXCEPT ![c] = "send"]
    /\ UNCHANGED <<op, cur>>

(* The last one of a group without notifications. *)
PostCasSilent(c) ==
    /\ PostSwap(c)
    /\ op[c].old.post = op[c].num
    /\ op[c].tbl = NoNotif
    /\ status' = [status EXCEPT ![op[c].g] = "completed"]
    /\ CountDecrementReturns(c)

(* Plausible bug: a failed send_notifs() is tried again from the start. *)
SendNotifs_Retry(c) ==
    /\ pc[c] = "send"
    /\ sent' = sent \cup {<<op[c].g, cur[c].cyc, op[c].tbl>>}
    /\ \/ CountDecrementReturns(c)
       \/ UNCHANGED <<cur, pc, op>>
    /\ UNCHANGED <<counts, in_stash, notif, ev, inrcv, rcv_multi_cnt, saved,
                   cyc, status, left, registered, aborted, freed>>

(* send_notifs() of the copied table, after .applied was cleared. *)
SendNotifs(c) ==
    /\ pc[c] = "send"
    /\ sent' = sent \cup {<<op[c].g, cur[c].cyc, op[c].tbl>>}
    /\ CountDecrementReturns(c)
    /\ UNCHANGED <<counts, in_stash, notif, ev, inrcv, rcv_multi_cnt, saved,
                   cyc, status, left, registered, aborted, freed>>

-----------------------------------------------------------------------------
(* em_event_group_notif(): load; the table is copied only if applied. *)
EventGroupNotif(c, g) ==
    /\ AppRuns(c) /\ c \in Recoverers
    /\ ~in_stash[g]
    /\ saved[c] = NoNotif
    /\ counts[g].applied
    /\ op' = [op EXCEPT ![c] = Call(g, 0, NoNotif, NoCounter)]
    /\ pc' = [pc EXCEPT ![c] = "notif_copy"]
    /\ UNCHANGED <<counts, in_stash, notif, ev, inrcv, cur, rcv_multi_cnt, saved, histVars>>

NotifCopy(c) ==
    /\ pc[c] = "notif_copy"
    /\ \E t \in TableReads(op[c].g) : saved' = [saved EXCEPT ![c] = t]
    /\ pc' = [pc EXCEPT ![c] = BackToApp(c)]
    /\ op' = [op EXCEPT ![c] = NoOp]
    /\ UNCHANGED <<counts, in_stash, notif, ev, inrcv, cur, rcv_multi_cnt, histVars>>

(* em_event_group_abort() in time: EM_OK, and by the documented procedure   *)
(* the caller may free or reuse the table it saved before.                  *)
EventGroupAbort(c, g) ==
    /\ AppRuns(c) /\ c \in Recoverers
    /\ ~in_stash[g]
    /\ counts[g].applied
    /\ counts' = [counts EXCEPT ![g] = ZeroedCounter(@)]
    /\ cur' = [cur EXCEPT ![c] = IF @.egrp = g THEN NoCur ELSE @]
    /\ status' = [status EXCEPT ![g] = "aborted"]
    /\ aborted' = aborted \cup {<<g, cyc[g]>>}
    /\ freed' = IF saved[c] = NoNotif THEN freed ELSE freed \cup {<<g, saved[c]>>}
    /\ saved' = [saved EXCEPT ![c] = NoNotif]
    /\ UNCHANGED <<in_stash, notif, ev, pc, inrcv, rcv_multi_cnt, op,
                   cyc, left, registered, sent>>

(* em_event_group_abort() too late: EM_ERR_BAD_STATE, hands off the table. *)
EventGroupAbortLate(c, g) ==
    /\ AppRuns(c) /\ c \in Recoverers
    /\ ~in_stash[g]
    /\ ~counts[g].applied
    /\ saved[c] # NoNotif
    /\ saved' = [saved EXCEPT ![c] = NoNotif]
    /\ UNCHANGED <<counts, in_stash, notif, ev, pc, inrcv, cur, rcv_multi_cnt, op, histVars>>

-----------------------------------------------------------------------------
(* Steps of a call or of the dispatcher on core c, once begun. *)
CoreStep(c) ==
    \/ EventGroupFree(c)
    \/ ApplyBadState(c) \/ ApplyLoad(c) \/ ApplyWrite(c) \/ ApplyCas(c)
    \/ PostExpired(c) \/ PostLoad(c) \/ PostCopy(c) \/ PostRetry(c)
    \/ PostCas(c) \/ PostCasLast(c) \/ PostCasSilent(c) \/ SendNotifs(c)
    \/ NotifCopy(c)

(* Calls of the application on core c. *)
AppCall(c) ==
    \/ \E g \in Group : \/ EventGroupCreate(c, g)
                        \/ EventGroupDelete(c, g)
                        \/ EventGroupAssign(c, g)
                        \/ EventGroupNotif(c, g)
                        \/ EventGroupAbort(c, g)
                        \/ EventGroupAbortLate(c, g)
    \/ \E g \in Group : \E n \in 1..CntMax, t \in NotifArgs(g) :
          EventGroupApply(c, g, n, t)
    \/ \E n \in 1..CntMax : EventGroupIncrement(c, n)
    \/ \E e \in Event, g \in Group \cup {UNDEF} : SendGroup(c, e, g)
    \/ EventGroupProcessingEnd(c)

Dispatcher(c) ==
    \/ \E B \in SUBSET Event : \E e \in B : Dispatch(c, B, e)
    \/ ReceiveReturn(c)

Next == \E c \in Core : CoreStep(c) \/ AppCall(c) \/ Dispatcher(c)

Spec == Init /\ [][Next]_vars

(* The cores run: a begun call comes to its end, an EO-receive function     *)
(* makes finitely many calls and returns, and the scheduler eventually      *)
(* hands out every queued event.                                            *)
Fairness ==
    /\ \A c \in Core : WF_vars(CoreStep(c)) /\ SF_vars(ReceiveReturn(c))
    /\ \A e \in Event : SF_vars(\E c \in Core, B \in SUBSET Event :
                                e \in B /\ \E f \in B : Dispatch(c, B, f))

FairSpec == Spec /\ Fairness

-----------------------------------------------------------------------------
(* The events of g's running cycle that a core has received and not yet     *)
(* counted as handled, as <<core, position in the batch>>.                  *)
Holds(c, g) == cur[c].egrp = g /\ cur[c].cyc = cyc[g] /\ pc[c] # "send"

Holders(g) == {c \in Core : Holds(c, g)}

Slots(H, cnt) == {h \in Core \X (1..MaxBatch) : h[1] \in H /\ h[2] <= cnt[h[1]]}

Held(g) == Slots(Holders(g), rcv_multi_cnt)

(* The two counters of an applied group differ by exactly the events inside *)
(* EO-receive functions, whatever the interleaving of pre_count_decrement(),*)
(* assign, increment and post_count_decrement(): the post-count of a live   *)
(* event is never rejected and a group never completes with events in hand. *)
CountersMatchHolders ==
    \A g \in Group :
        IF counts[g].applied
        THEN counts[g].post > 0 /\ counts[g].post = counts[g].pre + Cardinality(Held(g))
        ELSE counts[g].pre = 0 /\ counts[g].post = 0

(* post_cnt is what is left of the cycle: a group completes when, and only  *)
(* when, as many of ITS cycle's events were handled as were applied and     *)
(* incremented; delayed events of earlier cycles contribute nothing.        *)
CompletesWhenAllHandled ==
    \A g \in Group :
        /\ counts[g].applied <=> status[g] = "active"
        /\ status[g] = "active" => counts[g].post = left[g]
        /\ status[g] = "completed" => left[g] = 0

(* A core whose current generation equals the group's really works for the  *)
(* running cycle: the generation tag never lets an expired event pass.      *)
StaleNeverCounts ==
    \A c \in Core, g \in Group :
        cur[c].egrp = g /\ counts[g].gen = cur[c].gen => cur[c].cyc = cyc[g]

(* What post_count_decrement() copied from the unprotected table and sends  *)
(* is the table given to the apply of the cycle that completed, never one   *)
(* of another cycle or a torn one.                                          *)
NotifsOfTheirCycle ==
    /\ sent \subseteq registered
    /\ \A c \in Core : pc[c] = "send" => <<op[c].g, cur[c].cyc, op[c].tbl>> \in registered

(* One core sends the notifications of a completed cycle, once. *)
NotifsSentOnce ==
    \A c \in Core : pc[c] = "send" =>
        /\ \A s \in sent : <<s[1], s[2]>> # <<op[c].g, cur[c].cyc>>
        /\ \A d \in Core \ {c} :
              pc[d] = "send" => <<op[d].g, cur[d].cyc>> # <<op[c].g, cur[c].cyc>>

(* EM_OK from em_event_group_abort() means the cycle's notifications are    *)
(* not sent, also not by a core that had already copied the table.          *)
AbortedNotNotified ==
    /\ \A s \in sent : <<s[1], s[2]>> \notin aborted
    /\ \A c \in Core : pc[c] = "send" => <<op[c].g, cur[c].cyc>> \notin aborted

(* "when any of the notifications is received the group is ready for new    *)
(* apply": the cycle of a notification has ended before it is sent.         *)
ReadyWhenNotified ==
    \A g \in Group : counts[g].applied =>
        /\ \A s \in sent : s[1] = g => s[2] # cyc[g]
        /\ \A c \in Core : pc[c] = "send" /\ op[c].g = g => cur[c].cyc # cyc[g]

(* The notifications that post_count_decrement() sends are those of the cycle
   that completed, untorn, sent by one core, not after an abort that returned
   EM_OK, and the group can be applied again when they are received. *)
NotifsRight ==
  /\ NotifsOfTheirCycle /\ NotifsSentOnce /\ AbortedNotNotified /\ ReadyWhenNotified

(* The procedure documented for em_event_group_abort(): notifications saved *)
(* with em_event_group_notif() are not sent when abort returns EM_OK.       *)
SavedNotifsReusable ==
    \A f \in freed : \A s \in sent : ~(s[1] = f[1] /\ s[3] = f[2])

(* Refinement: the cycles as an application sees them. *)
Pending == {<<op[c].g, cur[c].cyc>> : c \in {d \in Core : pc[d] = "send"}}
Notified == {<<s[1], s[2]>> : s \in sent}

FJ == INSTANCE ForkJoin WITH pending <- Pending, notified <- Notified

(* Every step of the cores on the counters is a legal step of a cycle: no   *)
(* cycle starts before the last one ended, none ends twice, and it is       *)
(* notified once and only after its completion.                             *)
ImplementsForkJoin == FJ!Spec

QueuedFor(g) == {e \in Event : ev[e].queued /\ ev[e].egrp = g /\ ev[e].cyc = cyc[g]}

FullyPopulated(g) ==
    counts[g].applied /\ Cardinality(QueuedFor(g)) = counts[g].pre

(* A group for which exactly the outstanding events are in queues gets      *)
(* completed or aborted, unless the application changes the population.     *)
PopulatedCompletes ==
    \A g \in Group : FullyPopulated(g) ~> ~FullyPopulated(g)

-----------------------------------------------------------------------------
(* The inductive invariant behind the properties above. *)

PostSteps == {"post_load", "post_copy", "post_cas", "send"}
ApplySteps == {"apply_load", "apply_write", "apply_cas"}

(* The generation is the cycle number modulo GenMod, and every tag still in *)
(* use is less than GenMod cycles old.                                      *)
InWindow(tag, g) ==
    /\ tag.gen = tag.cyc % GenMod
    /\ tag.cyc <= cyc[g] /\ cyc[g] < tag.cyc + GenMod

GenInv ==
    \A g \in Group :
        /\ counts[g].gen = cyc[g] % GenMod
        /\ \A e \in Event : ev[e].queued /\ ev[e].egrp = g => InWindow(ev[e], g)
        /\ \A c \in Core : cur[c].egrp = g => InWindow(cur[c], g)
        /\ \A c \in Core : pc[c] \in ApplySteps /\ op[c].g = g => NoAncientTags(g)

(* Where a core is determines whether it has a current group. *)
CoreInv ==
    \A c \in Core :
        /\ pc[c] = "rcv" => inrcv[c]
        /\ pc[c] = "idle" => ~inrcv[c]
        /\ inrcv[c] \/ pc[c] \in PostSteps => rcv_multi_cnt[c] > 0
        /\ ~inrcv[c] /\ pc[c] \notin PostSteps => cur[c].egrp = UNDEF
        /\ pc[c] \in PostSteps =>
              op[c].g = cur[c].egrp /\ op[c].g \in Group /\ op[c].num = rcv_multi_cnt[c]
        /\ pc[c] \in {"post_copy", "post_cas"} =>
              op[c].old.gen = cur[c].gen /\ op[c].old.post >= op[c].num
        /\ pc[c] = "post_copy" => op[c].old.post = op[c].num
        /\ pc[c] = "notif_copy" => op[c].g \in Group

(* Apply and delete own their group; what they write it cannot be in use.   *)
OwnerInv ==
    /\ \A g \in Group : in_stash[g] => ~counts[g].applied
    /\ \A c \in Core : pc[c] \in OwnerSteps =>
        /\ op[c].g \in Group /\ ~in_stash[op[c].g]
        /\ \A d \in Core \ {c} : pc[d] \in OwnerSteps => op[d].g # op[c].g
        /\ pc[c] # "apply_load" => ~counts[op[c].g].applied
        /\ pc[c] \in ApplySteps => op[c].num \in 1..CntMax

(* While a cycle runs the table is the one it was applied with, and a copy  *)
(* that could still be sent for it equals the table.                        *)
TableInv ==
    /\ \A c \in Core : pc[c] = "apply_cas" => notif[op[c].g] = op[c].tbl
    /\ \A g \in Group : counts[g].applied => <<g, cyc[g], notif[g]>> \in registered
    /\ \A c \in Core :
         pc[c] = "post_cas" /\ op[c].old.post = op[c].num
         /\ cur[c].cyc = cyc[op[c].g] /\ counts[op[c].g].applied => op[c].tbl = notif[op[c].g]

Ended(g, k, how) == k < cyc[g] \/ (k = cyc[g] /\ status[g] = how)

EndedInv ==
    /\ \A s \in sent : Ended(s[1], s[2], "completed")
    /\ \A a \in aborted : Ended(a[1], a[2], "aborted")
    /\ \A c \in Core : pc[c] = "send" => Ended(op[c].g, cur[c].cyc, "completed")

IInv ==
    /\ TypeOK
    /\ GenInv
    /\ CoreInv
    /\ OwnerInv
    /\ CountersMatchHolders
    /\ CompletesWhenAllHandled
    /\ TableInv
    /\ EndedInv
    /\ NotifsOfTheirCycle
    /\ NotifsSentOnce
    /\ AbortedNotNotified
=============================================================================
