------------------------------ MODULE Timeout ------------------------------
(***************************************************************************)
(* The timeouts (tmo) of an EM timer, event_machine_timer.c: creating,     *)
(* setting, cancelling, acknowledging and deleting a timeout from several  *)
(* cores while the ODP timer below it expires.                             *)
(*                                                                         *)
(* No lock protects a tmo.  Its state is one atomic word that is loaded,   *)
(* tested and stored in separate steps, and the ODP timer is started or    *)
(* cancelled in a further step, so a call in progress is a record          *)
(* call[c] with a program counter pc naming the step it takes next.        *)
(*                                                                         *)
(* The application keeps to the rules of event_machine_timer.h: it sets or *)
(* deletes a tmo only while it knows it to be inactive (idle[t]), and      *)
(* acknowledges every periodic timeout event it receives.  The ODP timer   *)
(* is external, modelled by what the code relies on.  The branches for     *)
(* ODP < 1.50 are left out.                                                *)
(***************************************************************************)
EXTENDS Integers, FiniteSets

CONSTANTS
  Cores,        \* EM-cores (and threads) that call the timer API
  Tmos,         \* tmo handles
  Events,       \* events used as timeout events
  NoTmo, NoEv,  \* EM_TMO_UNDEF, EM_EVENT_UNDEF
  Kinds,        \* kinds of timeout the application creates
  Period,       \* period of a periodic timeout, in ticks
  Near,         \* ODP refuses to arm less than this many ticks ahead
  AckTries,     \* EM_TIMER_ACK_TRIES
  Mults,        \* rates of ring timeouts: the multiplier or frequency
  MaxPend,      \* bound: unacknowledged events of a ring timeout
  MaxTick,      \* bound: ticks of the timer in a behaviour
  MaxSets       \* bound: times a timeout is set in a behaviour

AllKinds == {"oneshot", "skip", "noskip", "ring"}

ASSUME TmoAssumption ==
  /\ NoTmo \notin Tmos /\ NoEv \notin Events
  /\ Kinds \subseteq AllKinds
  /\ Period \in Nat \ {0} /\ Near \in Nat \ {0} /\ AckTries \in Nat \ {0}
  /\ MaxPend \in Nat \ {0} /\ MaxTick \in Nat /\ MaxSets \in Nat
  /\ Mults # {} /\ 0 \notin Mults

VARIABLES
  now,    \* current tick of the ODP timer pool
  tmo,    \* em_timer_timeout_t: the state behind each handle
  timer,  \* the ODP timer of each tmo
  hdr,    \* the timer fields of each event's header
  place,  \* where each event is
  call,   \* the timer API call each core is in
  idle,   \* what the application knows: the tmo is inactive
  cycle,  \* history: first tick, timeouts armed or sent and skips before the cycle
  sets    \* number of sets so far

tmovars == <<now, tmo, timer, hdr, place, call, idle, cycle, sets>>

NoCall  == [pc |-> "none", t |-> NoTmo, e |-> NoEv, tries |-> 0, tick |-> 0]
NoTag   == [type |-> "NONE", tmo |-> NoTmo]
Stopped == [armed |-> FALSE, tick |-> 0, e |-> NoEv, mult |-> 0, pend |-> 0, ending |-> FALSE]
FreeTmo == [alloc |-> FALSE, state |-> "UNKNOWN", kind |-> "oneshot", last |-> 0, skips |-> 0]

PCs == {"setStart", "ringStart", "cancelStore", "cancelOdp",
        "ackStart", "ackSkip", "deleteFree"}

\* The calls in progress on t whose pc is in P
InCall(t, P) == \E c \in Cores : call[c].t = t /\ call[c].pc \in P
Periodic(t)  == tmo[t].kind # "oneshot"
Returned(c)  == [call EXCEPT ![c] = NoCall]
Untag(e)     == [hdr EXCEPT ![e] = NoTag]

TimeoutInit ==
  /\ now = 0
  /\ tmo = [t \in Tmos |-> FreeTmo]
  /\ timer = [t \in Tmos |-> Stopped]
  /\ hdr = [e \in Events |-> NoTag]
  /\ place = [e \in Events |-> "user"]
  /\ call = [c \in Cores |-> NoCall]
  /\ idle = [t \in Tmos |-> TRUE]
  /\ cycle = [t \in Tmos |-> [first |-> 0, fired |-> 0, skips |-> 0]]
  /\ sets = 0

-----------------------------------------------------------------------------
(* Create and delete *)

\* em_tmo_create_arg(): handle buffer and ODP timer; a ring timeout gets its
\* ODP timer only when it is set.
TmoCreate(c, t, kind) ==
  /\ call[c].pc = "none" /\ ~tmo[t].alloc /\ kind \in Kinds
  /\ tmo' = [tmo EXCEPT ![t] = [alloc |-> TRUE, state |-> "IDLE", kind |-> kind,
                                last |-> 0, skips |-> 0]]
  /\ timer' = [timer EXCEPT ![t] = Stopped]
  /\ idle' = [idle EXCEPT ![t] = TRUE]
  /\ UNCHANGED <<now, hdr, place, call, cycle, sets>>

\* What the application waits for before it deletes a tmo it knows inactive
DeleteAllowed(t) ==
  /\ tmo[t].alloc /\ idle[t]
  /\ ~InCall(t, PCs)

\* em_tmo_delete(): the state becomes UNKNOWN ...
TmoDelete(c, t) ==
  /\ call[c].pc = "none" /\ DeleteAllowed(t)
  /\ tmo' = [tmo EXCEPT ![t].state = "UNKNOWN"]
  /\ call' = [call EXCEPT ![c] = [NoCall EXCEPT !.pc = "deleteFree", !.t = t]]
  /\ UNCHANGED <<now, timer, hdr, place, idle, cycle, sets>>

\* ... then the ODP timer and the handle buffer are freed.
DeleteFree(c) ==
  LET t == call[c].t IN
  /\ call[c].pc = "deleteFree"
  /\ tmo' = [tmo EXCEPT ![t] = FreeTmo]
  /\ timer' = [timer EXCEPT ![t] = Stopped]
  /\ call' = Returned(c)
  /\ UNCHANGED <<now, hdr, place, idle, cycle, sets>>

-----------------------------------------------------------------------------
(* Set *)

\* A ring is set again only when no cancel of it is under way: the second of
\* two cancels would leave it running with state IDLE
MaySet(c, t) ==
  /\ call[c].pc = "none" /\ sets < MaxSets
  /\ tmo[t].alloc /\ idle[t]
  /\ ~InCall(t, IF tmo[t].kind = "ring" THEN PCs ELSE PCs \ {"cancelStore", "cancelOdp"})

\* Common to the set functions: the tag, state ACTIVE, and next the start of
\* the ODP timer.
Arm(c, t, e, type, tick) ==
  /\ hdr' = [hdr EXCEPT ![e] = [type |-> type, tmo |-> t]]
  /\ place' = [place EXCEPT ![e] = "call"]
  /\ call' = [call EXCEPT ![c] = [NoCall EXCEPT !.pc = "setStart", !.t = t, !.e = e, !.tick = tick]]
  /\ idle' = [idle EXCEPT ![t] = FALSE]
  /\ sets' = sets + 1
  /\ UNCHANGED <<now, timer, cycle>>

\* em_tmo_set_abs()
SetAbs(c, t, e, tick) ==
  /\ MaySet(c, t) /\ ~Periodic(t) /\ place[e] = "user"
  /\ tmo[t].state # "UNKNOWN"
  /\ tmo' = [tmo EXCEPT ![t].state = "ACTIVE"]
  /\ Arm(c, t, e, "ONESHOT", tick)

\* em_tmo_set_rel(): ODP adds the current tick when it starts the timer, here
\* a negative tick stands for -ticks_rel until then.
SetRel(c, t, e, ticks) ==
  /\ MaySet(c, t) /\ ~Periodic(t) /\ place[e] = "user"
  /\ tmo[t].state # "UNKNOWN"
  /\ tmo' = [tmo EXCEPT ![t].state = "ACTIVE"]
  /\ Arm(c, t, e, "ONESHOT", -ticks)

\* em_tmo_set_periodic(); start 0 is one period from now
SetPeriodic(c, t, e, start) ==
  LET first == IF start = 0 THEN now + Period ELSE start IN
  /\ MaySet(c, t) /\ tmo[t].kind \in {"skip", "noskip"} /\ place[e] = "user"
  /\ tmo[t].state # "UNKNOWN"
  /\ tmo' = [tmo EXCEPT ![t].state = "ACTIVE", ![t].last = first]
  /\ Arm(c, t, e, "PERIODIC", first)

\* The tick odp_timer_start() arms for
StartTick(c) == IF call[c].tick < 0 THEN now - call[c].tick ELSE call[c].tick

\* odp_timer_start(): a timer that is armed cannot be started, nor one for
\* a tick that is past or too near; a timer that is expiring may be busy.
OdpStart(t, tick) ==
  IF timer[t].armed THEN {"FAIL"}
  ELSE IF tick < now + Near THEN {"TOO_NEAR", "BUSY"}
  ELSE {"SUCCESS", "BUSY"}

ArmedTimer(t, tick, e) == [timer EXCEPT ![t].armed = TRUE, ![t].tick = tick, ![t].e = e]

\* odp_timer_start() in the set functions and their error path
SetStart(c, ret) ==
  LET t == call[c].t  e == call[c].e  tick == StartTick(c) IN
  /\ call[c].pc = "setStart" /\ ret \in OdpStart(t, tick)
  /\ call' = Returned(c)
  /\ \/ /\ ret = "SUCCESS"
        /\ timer' = ArmedTimer(t, tick, e)
        /\ place' = [place EXCEPT ![e] = "timer"]
        /\ cycle' = [cycle EXCEPT ![t] = [first |-> tick, fired |-> 1, skips |-> tmo[t].skips]]
        /\ UNCHANGED <<tmo, hdr, idle>>
     \/ /\ ret # "SUCCESS"
        /\ hdr' = Untag(e)
        /\ tmo' = [tmo EXCEPT ![t].state = "IDLE"]
        /\ place' = [place EXCEPT ![e] = "user"]
        /\ idle' = [idle EXCEPT ![t] = TRUE]
        /\ UNCHANGED <<timer, cycle>>
  /\ UNCHANGED <<now, sets>>

\* em_tmo_set_periodic_ring(): a new rate frees the ODP timer and allocates
\* another, which may fail; then state ACTIVE and the start.
SetRing(c, t, mult) ==
  /\ MaySet(c, t) /\ tmo[t].kind = "ring" /\ tmo[t].state \notin {"UNKNOWN", "ACTIVE"}
  /\ \/ /\ tmo' = [tmo EXCEPT ![t].state = "ACTIVE"]
        /\ timer' = IF timer[t].mult = mult THEN timer
                    ELSE [timer EXCEPT ![t] = [Stopped EXCEPT !.mult = mult]]
        /\ call' = [call EXCEPT ![c] = [NoCall EXCEPT !.pc = "ringStart", !.t = t]]
        /\ idle' = [idle EXCEPT ![t] = FALSE]
     \/ /\ timer[t].mult # mult
        /\ timer' = [timer EXCEPT ![t] = Stopped]
        /\ UNCHANGED <<tmo, call, idle>>
  /\ sets' = sets + 1
  /\ UNCHANGED <<now, hdr, place, cycle>>

\* em_tmo_set_periodic_ring_freq(): likewise, the rate is a frequency
SetRingFreq(c, t, freq) == SetRing(c, t, freq)

\* odp_timer_periodic_start() and its error path
RingStart(c, ret) ==
  LET t == call[c].t IN
  /\ call[c].pc = "ringStart" /\ ret \in {"SUCCESS", "TOO_NEAR"}
  /\ call' = Returned(c)
  /\ \/ /\ ret = "SUCCESS"
        /\ timer' = [timer EXCEPT ![t].armed = TRUE]
        /\ UNCHANGED <<tmo, idle>>
     \/ /\ ret # "SUCCESS"
        /\ tmo' = [tmo EXCEPT ![t].state = "IDLE"]
        /\ idle' = [idle EXCEPT ![t] = TRUE]
        /\ UNCHANGED timer
  /\ UNCHANGED <<now, hdr, place, cycle, sets>>

-----------------------------------------------------------------------------
(* Cancel *)

\* em_tmo_cancel(): the checks and the load of the state
TmoCancel(c, t) ==
  /\ call[c].pc = "none" /\ tmo[t].alloc /\ ~idle[t]
  /\ ~InCall(t, {"setStart", "ringStart", "deleteFree"})
  /\ tmo[t].state = "ACTIVE"
  /\ call' = [call EXCEPT ![c] = [NoCall EXCEPT !.pc = "cancelStore", !.t = t]]
  /\ UNCHANGED <<now, tmo, timer, hdr, place, idle, cycle, sets>>

\* ... the state becomes IDLE ...
CancelStore(c) ==
  /\ call[c].pc = "cancelStore"
  /\ tmo' = [tmo EXCEPT ![call[c].t].state = "IDLE"]
  /\ call' = [call EXCEPT ![c].pc = "cancelOdp"]
  /\ UNCHANGED <<now, timer, hdr, place, idle, cycle, sets>>

\* Mutant: a cancel that came too late reports success
CancelOdp_AlwaysOk(c) ==
  LET t == call[c].t  e == timer[t].e IN
  /\ call[c].pc = "cancelOdp" /\ tmo[t].kind # "ring"
  /\ call' = Returned(c)
  /\ timer' = [timer EXCEPT ![t].armed = FALSE]
  /\ IF timer[t].armed
     THEN hdr' = Untag(e) /\ place' = [place EXCEPT ![e] = "user"]
     ELSE UNCHANGED <<hdr, place>>
  /\ idle' = [idle EXCEPT ![t] = TRUE]
  /\ UNCHANGED <<now, tmo, cycle, sets>>

\* ... and the ODP timer is cancelled: an armed timer hands its event back,
\* one that is not armed returns TOO_NEAR or FAIL and no event.
CancelOdp(c) ==
  LET t == call[c].t  e == timer[t].e IN
  /\ call[c].pc = "cancelOdp" /\ tmo[t].kind # "ring"
  /\ call' = Returned(c)
  /\ \/ /\ timer[t].armed
        /\ timer' = [timer EXCEPT ![t].armed = FALSE]
        /\ hdr' = Untag(e)
        /\ place' = [place EXCEPT ![e] = "user"]
        /\ idle' = [idle EXCEPT ![t] = TRUE]
     \/ /\ ~timer[t].armed
        /\ UNCHANGED <<timer, hdr, place, idle>>
  /\ UNCHANGED <<now, tmo, cycle, sets>>

\* odp_timer_periodic_cancel() of a ring timeout; a last event is to come
CancelRing(c) ==
  LET t == call[c].t IN
  /\ call[c].pc = "cancelOdp" /\ tmo[t].kind = "ring"
  /\ timer' = IF timer[t].armed THEN [timer EXCEPT ![t].armed = FALSE, ![t].ending = TRUE]
              ELSE timer
  /\ call' = Returned(c)
  /\ UNCHANGED <<now, tmo, hdr, place, idle, cycle, sets>>

-----------------------------------------------------------------------------
(* Acknowledge *)

\* em_tmo_ack() of the received event r, with next as the next timeout event:
\* a tmo that is not ACTIVE has been cancelled, otherwise the next period is due.
TmoAck(c, r, next) ==
  LET t == hdr[r].tmo IN
  /\ call[c].pc = "none"
  /\ place[r] = "rcvd" /\ hdr[r].type = "PERIODIC"
  /\ next = r \/ place[next] = "user"
  /\ \/ /\ tmo[t].state # "ACTIVE"
        /\ hdr' = Untag(next)
        /\ place' = [place EXCEPT ![r] = "old", ![next] = "user"]
        /\ idle' = [idle EXCEPT ![t] = TRUE]
        /\ UNCHANGED <<tmo, call>>
     \/ /\ tmo[t].state = "ACTIVE"
        /\ tmo' = [tmo EXCEPT ![t].last = @ + Period]
        /\ hdr' = [hdr EXCEPT ![next] = [type |-> "PERIODIC", tmo |-> t]]
        /\ place' = [place EXCEPT ![r] = "old", ![next] = "call"]
        /\ call' = [call EXCEPT ![c] = [NoCall EXCEPT !.pc = "ackStart", !.t = t, !.e = next,
                                                      !.tries = AckTries]]
        /\ UNCHANGED idle
  /\ UNCHANGED <<now, timer, cycle, sets>>

\* Mutant: the event is given back with its tag
AckFail_KeepTag(c) ==
  LET t == call[c].t  e == call[c].e IN
  /\ place' = [place EXCEPT ![e] = "user"]
  /\ idle' = [idle EXCEPT ![t] = TRUE]
  /\ call' = Returned(c)
  /\ UNCHANGED hdr

\* The error path of tmo_ack_rearm(): the event is given back, the tmo has stopped.
AckFail(c) ==
  LET t == call[c].t  e == call[c].e IN
  /\ hdr' = Untag(e)
  /\ place' = [place EXCEPT ![e] = "user"]
  /\ idle' = [idle EXCEPT ![t] = TRUE]
  /\ call' = Returned(c)

\* Mutant: the number of tries is not limited
AckRetry_Endless(c) ==
  /\ call' = [call EXCEPT ![c].pc = "ackStart", ![c].tries = @ - 1]
  /\ UNCHANGED <<hdr, place, idle>>

\* The next try, unless there have been EM_TIMER_ACK_TRIES
AckRetry(c) ==
  IF call[c].tries - 1 < 1
  THEN AckFail(c)
  ELSE /\ call' = [call EXCEPT ![c].pc = "ackStart", ![c].tries = @ - 1]
       /\ UNCHANGED <<hdr, place, idle>>

\* handle_ack_noskip(): the event is sent at once; em_send() may fail
AckNoskip(c) ==
  LET t == call[c].t  e == call[c].e IN
  \/ /\ place' = [place EXCEPT ![e] = "queue"]
     /\ cycle' = [cycle EXCEPT ![t].fired = @ + 1]
     /\ call' = Returned(c)
     /\ UNCHANGED <<hdr, idle>>
  \/ AckFail(c) /\ UNCHANGED cycle

\* tmo_ack_rearm(): one odp_timer_start() for the next period
AckStart(c, ret) ==
  LET t == call[c].t  e == call[c].e  tick == tmo[t].last IN
  /\ call[c].pc = "ackStart" /\ ret \in OdpStart(t, tick)
  /\ \/ /\ ret = "SUCCESS"
        /\ timer' = ArmedTimer(t, tick, e)
        /\ place' = [place EXCEPT ![e] = "timer"]
        /\ cycle' = [cycle EXCEPT ![t].fired = @ + 1]
        /\ call' = Returned(c)
        /\ UNCHANGED <<hdr, idle>>
     \/ ret = "BUSY" /\ AckRetry(c) /\ UNCHANGED <<timer, cycle>>
     \/ ret = "FAIL" /\ AckFail(c) /\ UNCHANGED <<timer, cycle>>
     \/ /\ ret = "TOO_NEAR" /\ tmo[t].kind = "noskip"
        /\ AckNoskip(c)
        /\ UNCHANGED timer
     \/ /\ ret = "TOO_NEAR" /\ tmo[t].kind = "skip"
        /\ call' = [call EXCEPT ![c].pc = "ackSkip"]
        /\ UNCHANGED <<timer, hdr, place, idle, cycle>>
  /\ UNCHANGED <<now, tmo, sets>>

\* Mutant: a slot that is still ahead is skipped
Skips_OneMore(t) == IF now > tmo[t].last THEN ((now - tmo[t].last) \div Period) + 2 ELSE 1

\* handle_ack_skip(): how many periods to skip
Skips(t) == IF now > tmo[t].last THEN ((now - tmo[t].last) \div Period) + 1 ELSE 1

\* Mutant: several skipped periods are counted as one
AckSkip_CountOne(c) ==
  LET t == call[c].t IN
  /\ call[c].pc = "ackSkip"
  /\ tmo' = [tmo EXCEPT ![t].last = @ + Skips(t) * Period, ![t].skips = @ + 1]
  /\ AckRetry(c)
  /\ UNCHANGED <<now, timer, cycle, sets>>

AckSkip(c) ==
  LET t == call[c].t IN
  /\ call[c].pc = "ackSkip"
  /\ tmo' = [tmo EXCEPT ![t].last = @ + Skips(t) * Period, ![t].skips = @ + Skips(t)]
  /\ AckRetry(c)
  /\ UNCHANGED <<now, timer, cycle, sets>>

\* Mutant: the return value for the last event is not looked at
RingAck_NoLast(c, t) ==
  /\ call[c].pc = "none" /\ tmo[t].kind = "ring" /\ timer[t].pend > 0
  /\ timer' = [timer EXCEPT ![t].pend = @ - 1]
  /\ UNCHANGED <<now, tmo, hdr, place, call, idle, cycle, sets>>

\* ack_ring_timeout_event(): odp_timer_periodic_ack() tells of the last event
LastRingAck(t) == timer[t].ending /\ timer[t].pend = 1

\* em_tmo_ring_ack()
RingAck(c, t) ==
  LET last == LastRingAck(t) IN
  /\ call[c].pc = "none" /\ tmo[t].kind = "ring" /\ timer[t].pend > 0
  /\ timer' = [timer EXCEPT ![t].pend = @ - 1, ![t].ending = @ /\ ~last]
  /\ idle' = IF last THEN [idle EXCEPT ![t] = TRUE] ELSE idle
  /\ UNCHANGED <<now, tmo, hdr, place, call, cycle, sets>>

\* em_tmo_type() with reset, on an event the application has done with
TmoTypeReset(e) ==
  /\ \/ place[e] = "old"
     \/ place[e] = "rcvd" /\ hdr[e].type = "ONESHOT"
  /\ hdr' = Untag(e)
  /\ place' = [place EXCEPT ![e] = "user"]
  /\ UNCHANGED <<now, tmo, timer, call, idle, cycle, sets>>

-----------------------------------------------------------------------------
(* Time, expiry and reception *)

Tick ==
  /\ now < MaxTick
  /\ now' = now + 1
  /\ UNCHANGED <<tmo, timer, hdr, place, call, idle, cycle, sets>>

\* The ODP timer expires: its event goes to the queue of the tmo
Expire(t) ==
  /\ timer[t].armed /\ tmo[t].kind # "ring" /\ timer[t].tick <= now
  /\ timer' = [timer EXCEPT ![t].armed = FALSE]
  /\ place' = [place EXCEPT ![timer[t].e] = "queue"]
  /\ UNCHANGED <<now, tmo, hdr, call, idle, cycle, sets>>

\* A ring timer sends its event again and again, and once after a cancel
RingExpire(t) ==
  /\ \/ timer[t].armed /\ tmo[t].kind = "ring" /\ timer[t].pend < MaxPend
     \/ timer[t].ending /\ timer[t].pend = 0
  /\ timer' = [timer EXCEPT ![t].pend = @ + 1]
  /\ UNCHANGED <<now, tmo, hdr, place, call, idle, cycle, sets>>

\* The EO-receive function gets the event: a oneshot timeout is now inactive
Receive(e) ==
  /\ place[e] = "queue"
  /\ place' = [place EXCEPT ![e] = "rcvd"]
  /\ idle' = IF hdr[e].type = "ONESHOT" THEN [idle EXCEPT ![hdr[e].tmo] = TRUE] ELSE idle
  /\ UNCHANGED <<now, tmo, timer, hdr, call, cycle, sets>>

-----------------------------------------------------------------------------
Rets == {"SUCCESS", "TOO_NEAR", "BUSY", "FAIL"}

Steps(c) ==
  \/ \E ret \in Rets : SetStart(c, ret) \/ RingStart(c, ret) \/ AckStart(c, ret)
  \/ CancelStore(c) \/ CancelOdp(c) \/ CancelRing(c)
  \/ AckSkip(c) \/ DeleteFree(c)

Acks(c) ==
  \/ \E r, next \in Events : TmoAck(c, r, next)
  \/ \E t \in Tmos : RingAck(c, t)

Calls(c) == \E t \in Tmos :
  \/ \E k \in Kinds : TmoCreate(c, t, k)
  \/ TmoDelete(c, t) \/ TmoCancel(c, t)
  \/ \E e \in Events :
       \/ \E tick \in {now, now + Near} : SetAbs(c, t, e, tick)
       \/ SetRel(c, t, e, Near)
       \/ \E start \in {0, now + Near} : SetPeriodic(c, t, e, start)
  \/ \E m \in Mults : SetRing(c, t, m) \/ SetRingFreq(c, t, m)

TimeoutNext ==
  \/ \E c \in Cores : Steps(c) \/ Acks(c) \/ Calls(c)
  \/ \E t \in Tmos : Expire(t) \/ RingExpire(t)
  \/ \E e \in Events : Receive(e) \/ TmoTypeReset(e)
  \/ Tick

\* The timer pool runs, the dispatcher schedules the queue, a call that is
\* entered goes on, and the application acknowledges what it receives.
TimeoutFairness ==
  /\ WF_tmovars(Tick)
  /\ \A t \in Tmos : WF_tmovars(Expire(t)) /\ WF_tmovars(RingExpire(t))
  /\ \A e \in Events : WF_tmovars(Receive(e))
  /\ \A c \in Cores : WF_tmovars(Steps(c)) /\ WF_tmovars(Acks(c))

\* What is true of the timeouts without fairness
TimeoutSpec == TimeoutInit /\ [][TimeoutNext]_tmovars

-----------------------------------------------------------------------------
(* Properties *)

TmoType   == [alloc : BOOLEAN, state : {"UNKNOWN", "IDLE", "ACTIVE"}, kind : AllKinds,
              last : Nat, skips : Nat]
TimerType == [armed : BOOLEAN, tick : Nat, e : Events \cup {NoEv}, mult : Mults \cup {0},
              pend : 0 .. MaxPend, ending : BOOLEAN]
TagType   == [type : {"NONE", "ONESHOT", "PERIODIC"}, tmo : Tmos \cup {NoTmo}]
CallType  == [pc : PCs \cup {"none"}, t : Tmos \cup {NoTmo}, e : Events \cup {NoEv},
              tries : 0 .. AckTries, tick : Int]
CycleType == [first : Nat, fired : Nat, skips : Nat]

\* Types of the timeouts, their ODP timers, event headers and timer calls; an
\* event is always at one place
TimeoutTypeOK ==
  /\ now \in 0 .. MaxTick /\ sets \in 0 .. MaxSets
  /\ tmo \in [Tmos -> TmoType] /\ timer \in [Tmos -> TimerType]
  /\ hdr \in [Events -> TagType] /\ call \in [Cores -> CallType]
  /\ place \in [Events -> {"user", "call", "timer", "queue", "rcvd", "old"}]
  /\ idle \in [Tmos -> BOOLEAN] /\ cycle \in [Tmos -> CycleType]

\* Events that are on their way to the application for t, or received and
\* not yet acknowledged
Outstanding(t) ==
  {e \in Events : /\ place[e] \in {"timer", "queue", "call"} \/ (place[e] = "rcvd" /\ hdr[e].type = "PERIODIC")
                  /\ hdr[e].tmo = t}

\* Once a call has told the application that a timeout is inactive (a cancel
\* returned the event, an ack returned EM_ERR_CANCELED or failed, the oneshot
\* event came) no event of it is on its way: it may be set again or deleted.
\* Cancel, ack and expiry may have raced in any order.
InactiveIsQuiet ==
  \A t \in Tmos : idle[t] =>
    Outstanding(t) = {} /\ ~timer[t].armed /\ timer[t].pend = 0 /\ ~timer[t].ending

\* Flow control: no further timeout event of a tmo is armed or sent before the
\* previous one has been acknowledged (em_tmo_ack()), late or cancelled or not.
OneOutstanding == \A t \in Tmos : Cardinality(Outstanding(t)) <= 1

\* An event that a timer call has given back to the application, whatever its
\* outcome, carries no timeout tag: em_free() refuses a tagged event.
ReturnedUntagged == \A e \in Events : place[e] = "user" => hdr[e] = NoTag

\* Every slot of a periodic timeout since it was set was either armed or sent,
\* or is counted in stats.num_period_skips; with EM_TMO_FLAG_NOSKIP none is
\* skipped.  The slots keep the offset of the first one.
SlotsAccounted ==
  \A t \in Tmos :
    (/\ tmo[t].kind \in {"skip", "noskip"} /\ ~idle[t]
     /\ ~InCall(t, {"setStart", "ackStart", "ackSkip"})) =>
      LET skipped == tmo[t].skips - cycle[t].skips IN
      /\ tmo[t].last = cycle[t].first + (cycle[t].fired - 1 + skipped) * Period
      /\ tmo[t].kind = "noskip" => skipped = 0

\* An ack that arms the timer arms it for the earliest slot ODP accepts: not in
\* the past, and no slot that could still have been served is left out,
\* however late the ack and however many tries it took.
ArmsNextSlot ==
  [][\A c \in Cores : LET t == call[c].t IN
       (call[c].pc = "ackStart" /\ call'[c].pc = "none" /\ timer'[t].armed) =>
         timer'[t].tick >= now + Near /\ timer'[t].tick - Period < now + Near]_tmovars

\* A cancel that came too late is settled: the timeout event still comes, its
\* ack returns EM_ERR_CANCELED and the tmo is inactive (a timer armed beyond
\* the last tick of the instance is not waited for).
CancelSettles ==
  \A t \in Tmos :
    (tmo[t].alloc /\ tmo[t].state = "IDLE" /\ ~idle[t]) ~>
      (idle[t] \/ (timer[t].armed /\ timer[t].tick > MaxTick))

\* A timeout that the application knows to be inactive is quiet, an active one
\* has one event outstanding and loses no slot, and events that were given back
\* are untagged, however set, cancel, ack and expiry interleave.
TimeoutInv ==
  /\ TimeoutTypeOK /\ InactiveIsQuiet /\ OneOutstanding /\ ReturnedUntagged
  /\ SlotsAccounted
=============================================================================
