------------------------------- MODULE Timers -------------------------------
(***************************************************************************)
(* The timer storage of event_machine_timer.c and em_timer.c: creating and *)
(* deleting timers and ring timers, the tmo handle pools (one per timer or *)
(* one shared by all) and the reservations made from the shared one.       *)
(*                                                                         *)
(* Create and delete run under timer_lock, so each is one step.  A create  *)
(* takes its ODP resources one after the other and any of them may fail:   *)
(* fail names the first that does.  A tmo handle is a buffer of the handle *)
(* pool, taken without the lock.                                           *)
(***************************************************************************)
EXTENDS Integers, FiniteSets, FiniteSetsExt

CONSTANTS
  Slots,       \* indices of timer[], EM_ODP_MAX_TIMERS of them
  NumTmos,     \* values of em_timer_attr_t::num_tmo the application asks for
  Shared,      \* opt.timer.shared_tmo_pool_enable
  SharedSize,  \* opt.timer.shared_tmo_pool_size
  MayFail,     \* what may fail in a create
  RingWithin   \* the application creates at most num_tmo timeouts on a ring

Faults == {"odp_pool", "tmo_pool", "start"}

ASSUME TimersAssumption ==
  /\ Slots \subseteq Nat /\ IsFiniteSet(Slots)
  /\ NumTmos \subseteq Nat \ {0}
  /\ Shared \in BOOLEAN /\ RingWithin \in BOOLEAN
  /\ SharedSize \in Nat
  /\ MayFail \subseteq Faults

VARIABLES
  slot,       \* timer[]: event_timer_t
  shared,     \* shared_tmo_pool exists
  reserved,   \* tmos reserved from the shared pool
  numTimers,  \* num_timers
  numRings,   \* num_rings
  handles     \* tmo handles taken from the pool by each timer's timeouts

tvars == <<slot, shared, reserved, numTimers, numRings, handles>>

\* tmo_pool: none (ODP_POOL_INVALID), own, shared
Unused(s) == [s EXCEPT !.odp = FALSE, !.pool = "none"]

\* timer_init()
TimersInit ==
  /\ slot = [i \in Slots |-> [odp |-> FALSE, pool |-> "none", ring |-> FALSE, reserve |-> 0]]
  /\ shared = FALSE /\ reserved = 0 /\ numTimers = 0 /\ numRings = 0
  /\ handles = [i \in Slots |-> 0]

\* is_timer_valid()
Valid(i) == slot[i].odp /\ slot[i].pool # "none"

\* find_free_timer_index(): the first slot without an ODP timer pool
FreeSlots     == {i \in Slots : ~slot[i].odp}
FreeTimerSlot == Min(FreeSlots)

\* Mutant: what the other timers have reserved is not looked at
Fits_Alone(num) == ~Shared \/ num <= SharedSize

\* uint32_t left, and the check of the reservation against it
Fits(num) == ~Shared \/ num <= SharedSize - reserved

\* Where a create fails, if at all: the ODP timer pool, the handle pool (the
\* shared one is only created once), the reservation, the start of the pool
FirstFailure(fail, num) ==
  IF fail = "odp_pool" THEN "odp_pool"
  ELSE IF fail = "tmo_pool" /\ ~shared THEN "tmo_pool"
  ELSE IF ~Fits(num) THEN "reserve"
  ELSE IF fail = "start" THEN "start" ELSE "none"

\* create_tmo_handle_pool() and ring_setup_tmo_handle_pool(): the handle pool
\* of a new timer is its own, or the shared one, which the first timer creates
NewSlot(num, ring) ==
  [odp |-> TRUE, pool |-> IF Shared THEN "shared" ELSE "own", ring |-> ring, reserve |-> num]
SharedAfter(failed) == shared \/ (Shared /\ failed \notin {"odp_pool", "tmo_pool"})

\* The slot after a create; cleanup_timer_create_fail() destroys the pools of
\* a failed one, but never the shared pool, and leaves the other fields
SlotAfter(failed, old, new) ==
  CASE failed = "none"    -> new
    [] failed = "start"   -> Unused(new)
    [] failed = "reserve" -> [Unused(old) EXCEPT !.reserve = new.reserve]
    [] OTHER              -> Unused(old)

\* em_timer_create()
TimerCreate(num, fail) ==
  LET i == FreeTimerSlot
      failed == FirstFailure(fail, num)
  IN
  /\ FreeSlots # {}
  /\ slot' = [slot EXCEPT ![i] = SlotAfter(failed, slot[i], NewSlot(num, FALSE))]
  /\ shared' = SharedAfter(failed)
  /\ reserved' = IF Shared /\ failed \in {"start", "none"} THEN reserved + num ELSE reserved
  /\ numTimers' = IF failed = "none" THEN numTimers + 1 ELSE numTimers
  /\ UNCHANGED <<numRings, handles>>

\* ring_create_common(), for both kinds of ring: the counters are raised
\* before the timer pool is started
RingCreate(num, fail) ==
  LET i == FreeTimerSlot
      failed == FirstFailure(fail, num)
      counted == failed \in {"start", "none"}
  IN
  /\ FreeSlots # {}
  /\ slot' = [slot EXCEPT ![i] = SlotAfter(failed, slot[i], NewSlot(num, TRUE))]
  /\ shared' = SharedAfter(failed)
  /\ reserved' = IF Shared /\ counted THEN reserved + num ELSE reserved
  /\ numTimers' = IF counted THEN numTimers + 1 ELSE numTimers
  /\ numRings' = IF counted THEN numRings + 1 ELSE numRings
  /\ UNCHANGED handles

\* Mutants: all reservations are dropped; none is; the shared pool goes with the last ring
TimerDeleteWith(i, res, keep) ==
  LET n == numTimers - 1 IN
  /\ Valid(i) /\ handles[i] = 0
  /\ slot' = [slot EXCEPT ![i] = IF shared THEN [Unused(slot[i]) EXCEPT !.reserve = 0]
                                          ELSE Unused(slot[i])]
  /\ numRings' = IF slot[i].ring /\ numRings > 0 THEN numRings - 1 ELSE numRings
  /\ numTimers' = n
  /\ reserved' = res
  /\ shared' = (shared /\ keep)
  /\ UNCHANGED handles
TimerDelete_DropAll(i) == TimerDeleteWith(i, 0, numTimers # 1)
TimerDelete_DropNone(i) == TimerDeleteWith(i, reserved, numTimers # 1)
TimerDelete_LastRing(i) ==
  TimerDeleteWith(i, reserved - slot[i].reserve, ~slot[i].ring \/ numRings # 1)

\* em_timer_delete(): the application has deleted the timeouts of the timer
TimerDelete(i) ==
  LET n == numTimers - 1 IN
  /\ Valid(i) /\ handles[i] = 0
  /\ slot' = [slot EXCEPT ![i] = IF shared THEN [Unused(slot[i]) EXCEPT !.reserve = 0]
                                          ELSE Unused(slot[i])]
  /\ numRings' = IF slot[i].ring /\ numRings > 0 THEN numRings - 1 ELSE numRings
  /\ numTimers' = n
  /\ reserved' = IF shared THEN reserved - slot[i].reserve ELSE reserved
  /\ shared' = (shared /\ n # 0)
  /\ UNCHANGED handles

\* The sum of what a function gives for the slots of a set
Units(f, S)  == UNION {{i} \X (1..f[i]) : i \in S}
SumFor(f, S) == Cardinality(Units(f, S))

\* Buffers left in the handle pool timer i allocates from
InShared == {j \in Slots : Valid(j) /\ slot[j].pool = "shared"}
PoolLeft(i) ==
  IF slot[i].pool = "own" THEN slot[i].reserve - handles[i]
  ELSE SharedSize - SumFor(handles, InShared)

\* em_tmo_create(): a handle, and for a timer that is not a ring one of the
\* num_tmo timers of its ODP timer pool
HandleAlloc(i) ==
  /\ Valid(i) /\ PoolLeft(i) > 0
  /\ (RingWithin \/ ~slot[i].ring) => handles[i] < slot[i].reserve
  /\ handles' = [handles EXCEPT ![i] = @ + 1]
  /\ UNCHANGED <<slot, shared, reserved, numTimers, numRings>>

\* em_tmo_delete()
HandleFree(i) ==
  /\ handles[i] > 0
  /\ handles' = [handles EXCEPT ![i] = @ - 1]
  /\ UNCHANGED <<slot, shared, reserved, numTimers, numRings>>

TimersNext ==
  \/ \E num \in NumTmos, fail \in MayFail \cup {"none"} : TimerCreate(num, fail) \/ RingCreate(num, fail)
  \/ \E i \in Slots : TimerDelete(i) \/ HandleAlloc(i) \/ HandleFree(i)

TimersSpec == TimersInit /\ [][TimersNext]_tvars

-----------------------------------------------------------------------------
\* Types of the timer table; no more is reserved than the shared pool has
TimersTypeOK ==
  /\ slot \in [Slots -> [odp : BOOLEAN, pool : {"none", "own", "shared"}, ring : BOOLEAN, reserve : Nat]]
  /\ shared \in BOOLEAN /\ reserved \in 0 .. SharedSize
  /\ numTimers \in Nat /\ numRings \in Nat
  /\ handles \in [Slots -> Nat]

Timers == {i \in Slots : Valid(i)}

\* A timer can create the num_tmo timeouts it reserved whatever the other
\* timers do: there is a handle left in the pool for each of them, as long as
\* the timeouts of a ring stay within its reservation too (RingWithin).
ReservationHonoured ==
  \A i \in Timers : handles[i] < slot[i].reserve => PoolLeft(i) > 0

\* The shared pool stays as long as a timer has its handles in it.
SharedPoolOutlivesTimers == InShared # {} => shared

\* What is reserved, and the number of timers and rings, are those of the
\* timers that exist: a create that fails before it starts the timer pool
\* leaves nothing behind.  ("start" in MayFail is excluded: the reservation and
\* the counts are raised by then and stay.)
ReservedByTimers ==
  /\ Shared => reserved = SumFor([i \in Slots |-> slot[i].reserve], Timers)
  /\ numTimers = Cardinality(Timers)
  /\ numRings = Cardinality({i \in Timers : slot[i].ring})

\* Timers get the handles they reserved, from a pool that exists, and what is
\* reserved and counted is theirs.
TimersInv ==
  /\ TimersTypeOK /\ ReservationHonoured /\ SharedPoolOutlivesTimers /\ ReservedByTimers
=============================================================================
