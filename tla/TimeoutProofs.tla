--------------------------- MODULE TimeoutProofs ---------------------------
(***************************************************************************)
(* The safety properties of Timeout, for any number of cores, timeouts,    *)
(* events and tries, any period and any number of sets and ticks.          *)
(*                                                                         *)
(* A timeout that is not a ring has one event: in the call that sets or    *)
(* acknowledges it, in the ODP timer, in a queue, or received and not yet  *)
(* acknowledged (Live).  Everything else follows that event: the ODP timer *)
(* is armed exactly while it has it, the application takes the timeout for *)
(* inactive exactly when there is none, and the next slot of a periodic    *)
(* timeout is known from where it is.                                      *)
(*                                                                         *)
(* Then those of Timers, for any number of timers: every timer that exists *)
(* has the pools it needs, and the counters of the timer storage are those *)
(* of the timers that exist.                                               *)
(***************************************************************************)
EXTENDS Timeout, Timers, FiniteSetTheorems, WellFoundedInduction, TLAPS

\* The steps of a call that has the timeout event in hand.
Holding == {"setStart", "ackStart", "ackSkip"}

\* The event is on its way to the application, or received and not acknowledged.
Live(e) ==
  \/ place[e] \in {"timer", "queue", "call"}
  \/ place[e] = "rcvd" /\ hdr[e].type = "PERIODIC"

\* A call in progress is on a timeout that exists; one that has an event is the
\* only one to have it, and one that starts a ring or frees the timeout is the
\* only one on the timeout.
CallOK(c) ==
  LET r == call[c]  t == call[c].t IN
  /\ r.pc = "none" <=> t = NoTmo
  /\ r.pc # "none" => tmo[t].alloc
  /\ r.pc \in Holding => r.e \in Events /\ place[r.e] = "call" /\ hdr[r.e].tmo = t
  /\ r.pc \in Holding => \A d \in Cores : call[d].pc \in Holding /\ call[d].e = r.e => d = c
  /\ r.pc = "ackStart" => tmo[t].kind \in {"skip", "noskip"}
  /\ r.pc = "ackSkip" => tmo[t].kind = "skip"
  /\ r.pc = "ringStart" => /\ tmo[t].kind = "ring" /\ ~idle[t]
                           /\ ~timer[t].armed /\ timer[t].pend = 0 /\ ~timer[t].ending
  /\ r.pc = "deleteFree" => idle[t]
  /\ r.pc \in {"ringStart", "deleteFree"} => \A d \in Cores : call[d].t = t => d = c
CallInv == \A c \in Cores : CallOK(c)

\* A live event belongs to a timeout that the application knows to be active, it
\* is the only one of it, and the call or timer that has it is there.
EventOK(e) ==
  LET t == hdr[e].tmo IN
  /\ place[e] = "user" => hdr[e] = NoTag
  /\ place[e] \in {"call", "timer", "queue", "rcvd"} =>
       t \in Tmos /\ hdr[e].type \in {"ONESHOT", "PERIODIC"}
  /\ Live(e) => /\ tmo[t].alloc /\ ~idle[t] /\ tmo[t].kind # "ring"
                /\ hdr[e].type = "ONESHOT" <=> tmo[t].kind = "oneshot"
  /\ Live(e) => \A f \in Events : Live(f) /\ hdr[f].tmo = t => f = e
  /\ place[e] = "timer" => timer[t].armed /\ timer[t].e = e
  /\ place[e] = "call" => \E c \in Cores : call[c].pc \in Holding /\ call[c].e = e
EventInv == \A e \in Events : EventOK(e)

\* A timer that is armed has the event of its timeout, an inactive timeout has
\* a timer that is off, and only a cancelled ring has a last event to come.
TimerOK(t) ==
  /\ idle[t] => ~timer[t].armed /\ timer[t].pend = 0 /\ ~timer[t].ending
  /\ ~tmo[t].alloc => idle[t]
  /\ timer[t].ending => ~timer[t].armed
  /\ tmo[t].kind # "ring" => timer[t].pend = 0 /\ ~timer[t].ending
  /\ tmo[t].kind # "ring" /\ timer[t].armed =>
       timer[t].e \in Events /\ place[timer[t].e] = "timer" /\ hdr[timer[t].e].tmo = t
TimerInv == \A t \in Tmos : TimerOK(t)

\* Slots of the cycle that were skipped
Skipped(t) == tmo[t].skips - cycle[t].skips

\* The slot n periods after the first one
Slot(t, n) == cycle[t].first + n * Period

\* Where the event of a periodic timeout is tells which slot is the next one,
\* and that the one before it could not be armed any more.
SlotOK(t) ==
  tmo[t].kind \in {"skip", "noskip"} /\ ~idle[t] =>
    /\ \A c \in Cores : call[c].t = t /\ call[c].pc = "setStart" => call[c].tick = tmo[t].last
    /\ \A c \in Cores : call[c].t = t /\ call[c].pc \in {"ackStart", "ackSkip"} =>
         /\ tmo[t].last = Slot(t, cycle[t].fired + Skipped(t))
         /\ call[c].pc = "ackStart" => tmo[t].last - Period < now + Near
         /\ call[c].pc = "ackSkip" => tmo[t].last < now + Near
    /\ ~InCall(t, Holding) => tmo[t].last = Slot(t, cycle[t].fired - 1 + Skipped(t))
    /\ ~InCall(t, {"setStart"}) => Skipped(t) >= 0 /\ (tmo[t].kind = "noskip" => Skipped(t) = 0)
    /\ timer[t].armed => timer[t].tick = tmo[t].last
    /\ \A e \in Events : hdr[e].tmo = t /\ hdr[e].type = "PERIODIC" /\ place[e] \in {"queue", "rcvd"} =>
         tmo[t].last < now + Near
SlotInv == \A t \in Tmos : SlotOK(t)

\* The inductive invariant.
IInv == TimeoutTypeOK /\ CallInv /\ EventInv /\ TimerInv /\ SlotInv
-----------------------------------------------------------------------------
(* Types.  What the actions assign to the records has their type. *)

\* The record of a core that is in no call.
LEMMA NoCallType == NoCall \in CallType
BY TmoAssumption DEF NoCall, CallType

\* A core returns from its call.
LEMMA ReturnedType ==
  ASSUME NEW c \in Cores, call \in [Cores -> CallType] PROVE Returned(c) \in [Cores -> CallType]
BY NoCallType DEF Returned

\* An ODP timer that is armed.
LEMMA ArmedType ==
  ASSUME NEW t \in Tmos, NEW n \in Nat, NEW e \in Events, timer \in [Tmos -> TimerType]
  PROVE  ArmedTimer(t, n, e) \in [Tmos -> TimerType]
BY ZenonT(40) DEF ArmedTimer, TimerType

\* One more slot that is armed or sent.
LEMMA FiredType ==
  ASSUME NEW t \in Tmos, cycle \in [Tmos -> CycleType]
  PROVE  [cycle EXCEPT ![t].fired = @ + 1] \in [Tmos -> CycleType]
BY DEF CycleType

\* A timeout whose state changes.
LEMMA StateType ==
  ASSUME NEW t \in Tmos, NEW s \in {"UNKNOWN", "IDLE", "ACTIVE"}, tmo \in [Tmos -> TmoType]
  PROVE  [tmo EXCEPT ![t].state = s] \in [Tmos -> TmoType]
BY DEF TmoType

\* The header of an event that has no tag any more, or another one.
LEMMA TagsType ==
  ASSUME NEW e \in Events, hdr \in [Events -> TagType]
  PROVE  /\ Untag(e) \in [Events -> TagType]
         /\ \A t \in Tmos, k \in {"ONESHOT", "PERIODIC"} :
              [hdr EXCEPT ![e] = [type |-> k, tmo |-> t]] \in [Events -> TagType]
BY DEF TagType, Untag, NoTag

\* A core enters a call on t.
LEMMA EnterType ==
  ASSUME NEW c \in Cores, NEW t \in Tmos, NEW p \in PCs, call \in [Cores -> CallType]
  PROVE  [call EXCEPT ![c] = [NoCall EXCEPT !.pc = p, !.t = t]] \in [Cores -> CallType]
<1>1. [NoCall EXCEPT !.pc = p, !.t = t] \in CallType BY NoCallType DEF CallType
<1> QED BY <1>1

\* An ODP timer that is off, for any rate.
LEMMA StoppedType ==
  /\ Stopped \in TimerType
  /\ \A m \in Mults \cup {0} : [Stopped EXCEPT !.mult = m] \in TimerType
<1>1. 0 \in 0 .. MaxPend BY TmoAssumption
<1>2. Stopped \in TimerType BY <1>1 DEF Stopped, TimerType
<1>3. ASSUME NEW m \in Mults \cup {0} PROVE [Stopped EXCEPT !.mult = m] \in TimerType
  BY <1>2 DEF TimerType
<1> QED BY <1>2, <1>3

-----------------------------------------------------------------------------
(* What a step that leaves a timeout alone keeps. *)

\* The call of a core on u is one with its event in hand.
Holds(d, u) == call[d].t = u /\ call[d].pc \in Holding

\* The slots of u: nothing of it changes but the time, and possibly other calls.
SlotKept(u) ==
  /\ tmo'[u].kind = tmo[u].kind /\ tmo'[u].last = tmo[u].last /\ tmo'[u].skips = tmo[u].skips
  /\ timer'[u] = timer[u] /\ idle'[u] = idle[u] /\ cycle'[u] = cycle[u]
  /\ \A d \in Cores : Holds(d, u)' <=> Holds(d, u)
  /\ \A d \in Cores : Holds(d, u) => call'[d] = call[d]
  /\ \A f \in Events :
       /\ hdr'[f].tmo = u /\ hdr'[f].type = "PERIODIC" /\ place'[f] \in {"queue", "rcvd"}
       => /\ hdr[f].tmo = u /\ hdr[f].type = "PERIODIC" /\ place[f] \in {"queue", "rcvd"}

\* The slots of such a timeout stay as they are.
LEMMA SlotSame ==
  ASSUME NEW u \in Tmos, TimeoutTypeOK, SlotOK(u), SlotKept(u), now' \in Nat, now' >= now
  PROVE  SlotOK(u)'
<1>1. /\ InCall(u, Holding)' <=> InCall(u, Holding)
      /\ InCall(u, {"setStart"})' <=> InCall(u, {"setStart"})
  BY DEF InCall, SlotKept, Holds, Holding
<1>2. now \in Nat /\ tmo[u].last \in Nat BY TmoAssumption DEF TimeoutTypeOK, TmoType
<1>3. \A d \in Cores : call'[d].t = u /\ call'[d].pc \in Holding => call'[d] = call[d]
  BY DEF SlotKept, Holds
<1>4. Skipped(u)' = Skipped(u) /\ \A n : Slot(u, n)' = Slot(u, n) BY DEF Skipped, Slot, SlotKept
<1> QED BY <1>1, <1>2, <1>3, <1>4, TmoAssumption DEF SlotOK, SlotKept, Holding

\* The call of d: it does not move, its event stays where it is, what it relies on
\* of its timeout stays, and no other call gets in its way.
CallKept(d) ==
  LET r == call[d]  t == call[d].t IN
  /\ call'[d] = call[d]
  /\ r.pc # "none" => tmo'[t].alloc = tmo[t].alloc /\ tmo'[t].kind = tmo[t].kind
  /\ r.pc \in Holding =>
       /\ place'[r.e] = place[r.e] /\ hdr'[r.e] = hdr[r.e]
       /\ \A b \in Cores : call'[b].pc \in Holding /\ call'[b].e = r.e =>
                             call[b].pc \in Holding /\ call[b].e = r.e
  /\ r.pc = "ringStart" => timer'[t] = timer[t] /\ idle'[t] = idle[t]
  /\ r.pc = "deleteFree" => idle'[t]
  /\ r.pc \in {"ringStart", "deleteFree"} => \A b \in Cores : call'[b].t = t => call[b].t = t

\* Such a call stays as it is.
LEMMA CallSame ==
  ASSUME NEW d \in Cores, CallOK(d), CallKept(d) PROVE CallOK(d)'
BY DEF CallOK, CallKept

\* The slots after a step that touches only timeouts that are rings, or inactive.
LEMMA SlotsStay ==
  ASSUME IInv, now' \in Nat, now' >= now,
         \A u \in Tmos : SlotKept(u) \/ idle'[u] \/ tmo'[u].kind = "ring"
  PROVE  SlotInv'
<1> SUFFICES ASSUME NEW u \in Tmos PROVE SlotOK(u)' BY DEF SlotInv
<1>1. CASE SlotKept(u)
  <2>1. TimeoutTypeOK /\ SlotOK(u) BY DEF IInv, SlotInv
  <2> QED BY <1>1, <2>1, SlotSame
<1>2. CASE idle'[u] \/ tmo'[u].kind = "ring" BY <1>2 DEF SlotOK
<1> QED BY <1>1, <1>2

\* No event moves: the timeouts that have one stay as they are, and so do the
\* calls that hold one.
EventsKept ==
  /\ place' = place /\ hdr' = hdr
  /\ \A u \in Tmos : ~idle[u] /\ tmo[u].kind # "ring" =>
       /\ tmo'[u].alloc = tmo[u].alloc /\ tmo'[u].kind = tmo[u].kind
       /\ idle'[u] = idle[u] /\ timer'[u] = timer[u]
  /\ \A d \in Cores : call[d].pc \in Holding => call'[d] = call[d]

\* The events stay as they are.
LEMMA EventsStay == ASSUME IInv, EventsKept PROVE EventInv'
<1> SUFFICES ASSUME NEW f \in Events PROVE EventOK(f)' BY DEF EventInv
<1>1. EventOK(f) /\ place' = place /\ hdr' = hdr BY DEF IInv, EventInv, EventsKept
<1>2. \A g \in Events : Live(g)' <=> Live(g) BY <1>1 DEF Live
<1>3. Live(f) =>
        LET u == hdr[f].tmo IN
        /\ u \in Tmos /\ tmo'[u].alloc = tmo[u].alloc /\ tmo'[u].kind = tmo[u].kind
        /\ idle'[u] = idle[u] /\ timer'[u] = timer[u]
  BY <1>1 DEF EventOK, Live, EventsKept
<1>4. place[f] = "call" => \E d \in Cores : call'[d].pc \in Holding /\ call'[d].e = f
  BY <1>1 DEF EventOK, EventsKept
<1>5. place[f] = "timer" => Live(f) BY DEF Live
<1> QED BY <1>1, <1>2, <1>3, <1>4, <1>5 DEF EventOK

-----------------------------------------------------------------------------
(* The set functions for oneshot and periodic timeouts *)

\* What em_tmo_set_abs(), em_tmo_set_rel() and em_tmo_set_periodic() do alike
SetAt(c, t, e, type, tick) ==
  /\ MaySet(c, t) /\ place[e] = "user" /\ tick \in Int
  /\ Arm(c, t, e, type, tick)
  /\ \/ /\ type = "ONESHOT" /\ tmo[t].kind = "oneshot"
        /\ tmo' = [tmo EXCEPT ![t].state = "ACTIVE"]
     \/ /\ type = "PERIODIC" /\ tmo[t].kind \in {"skip", "noskip"} /\ tick \in Nat
        /\ tmo' = [tmo EXCEPT ![t].state = "ACTIVE", ![t].last = tick]

\* They mark the timeout active and take the event.
LEMMA SetKeeps ==
  ASSUME IInv, NEW c \in Cores, NEW t \in Tmos, NEW e \in Events, NEW type, NEW tick,
         SetAt(c, t, e, type, tick)
  PROVE  IInv'
<1>0. TimeoutTypeOK BY DEF IInv
<1>1. TimeoutTypeOK'
  <2>1. tmo' \in [Tmos -> TmoType]
    <3>1. tmo \in [Tmos -> TmoType] BY <1>0 DEF TimeoutTypeOK
    <3>2. CASE tmo' = [tmo EXCEPT ![t].state = "ACTIVE"] BY <3>1, <3>2 DEF TmoType
    <3>3. CASE tick \in Nat /\ tmo' = [tmo EXCEPT ![t].state = "ACTIVE", ![t].last = tick]
      BY <3>1, <3>3 DEF TmoType
    <3> QED BY <3>2, <3>3 DEF SetAt
  <2>2. call' \in [Cores -> CallType]
    <3>1. call \in [Cores -> CallType] BY <1>0 DEF TimeoutTypeOK
    <3>2. tick \in Int /\ call' = [call EXCEPT ![c] = [NoCall EXCEPT !.pc = "setStart", !.t = t, !.e = e, !.tick = tick]]
      BY DEF SetAt, Arm
    <3>3. [NoCall EXCEPT !.pc = "setStart", !.t = t, !.e = e, !.tick = tick] \in CallType
      BY <3>2, NoCallType DEF CallType, PCs
    <3> QED BY <3>1, <3>2, <3>3
  <2>3. hdr' \in [Events -> TagType]
    BY <1>0 DEF TimeoutTypeOK, SetAt, Arm, TagType
  <2>4. sets' \in 0 .. MaxSets BY <1>0, TmoAssumption DEF TimeoutTypeOK, SetAt, MaySet, Arm
  <2> QED BY <1>0, <2>1, <2>2, <2>3, <2>4 DEF TimeoutTypeOK, SetAt, Arm
<1>2. /\ call'[c].pc = "setStart" /\ call'[c].t = t /\ call'[c].e = e /\ call'[c].tick = tick
      /\ \A d \in Cores \ {c} : call'[d] = call[d]
  <2>1. DOMAIN call = Cores BY <1>0 DEF TimeoutTypeOK
  <2> QED BY <2>1 DEF SetAt, Arm, NoCall
<1>3. /\ call[c].pc = "none" /\ ~InCall(t, PCs \ {"cancelStore", "cancelOdp"}) /\ tmo[t].kind # "ring"
      /\ tmo[t].alloc /\ place[e] = "user" /\ idle[t]
      /\ place' = [place EXCEPT ![e] = "call"] /\ idle' = [idle EXCEPT ![t] = FALSE]
      /\ hdr' = [hdr EXCEPT ![e] = [type |-> type, tmo |-> t]] /\ timer' = timer
      /\ type \in {"ONESHOT", "PERIODIC"} /\ (type = "ONESHOT" <=> tmo[t].kind = "oneshot")
      /\ now' = now /\ cycle' = cycle
  BY DEF SetAt, MaySet, Arm
<1>4. /\ \A u \in Tmos : /\ tmo'[u].alloc = tmo[u].alloc /\ tmo'[u].kind = tmo[u].kind
                         /\ tmo'[u].skips = tmo[u].skips /\ (u # t => tmo'[u] = tmo[u])
      /\ tmo[t].kind # "oneshot" => tmo'[t].last = tick
  <2>1. tmo \in [Tmos -> TmoType] BY <1>0 DEF TimeoutTypeOK
  <2>2. CASE tmo[t].kind = "oneshot" /\ tmo' = [tmo EXCEPT ![t].state = "ACTIVE"]
    BY <2>1, <2>2 DEF TmoType
  <2>3. CASE tmo' = [tmo EXCEPT ![t].state = "ACTIVE", ![t].last = tick] BY <2>1, <2>3 DEF TmoType
  <2> QED BY <2>2, <2>3 DEF SetAt
<1>5. CallInv'
  <2> SUFFICES ASSUME NEW d \in Cores PROVE CallOK(d)' BY DEF CallInv
  <2>1. CASE d = c
    <3>1. \A b \in Cores \ {c} : ~(call[b].pc \in Holding /\ call[b].e = e)
      BY <1>3 DEF IInv, CallInv, CallOK
    <3> QED BY <1>0, <1>2, <1>3, <1>4, <2>1, <3>1, TmoAssumption
               DEF TimeoutTypeOK, CallOK, Holding, TagType
  <2>2. CASE d # c
    <3>1. call'[d] = call[d] /\ CallOK(d) BY <1>2, <2>2 DEF IInv, CallInv
    <3>2. call[d].pc \in Holding => call[d].e # e BY <1>3, <3>1 DEF CallOK
    <3>3. call[d].pc \notin {"none", "cancelStore", "cancelOdp"} => call[d].t # t
      BY <1>0, <1>3 DEF TimeoutTypeOK, CallType, InCall
    <3>4. call[d].t \in Tmos \cup {NoTmo} BY <1>0 DEF TimeoutTypeOK, CallType
    <3> QED BY <1>0, <1>2, <1>3, <1>4, <2>2, <3>1, <3>2, <3>3, <3>4
               DEF TimeoutTypeOK, CallOK, Holding
  <2> QED BY <2>1, <2>2
<1>6. EventInv'
  BY <1>0, <1>2, <1>3, <1>4
     DEF IInv, TimeoutTypeOK, CallInv, CallOK, EventInv, EventOK, TimerInv, TimerOK, Live, Holding
<1>7. TimerInv'
  BY <1>0, <1>2, <1>3, <1>4
     DEF IInv, TimeoutTypeOK, CallInv, CallOK, EventInv, EventOK, TimerInv, TimerOK, Live, Holding
<1>8. SlotInv'
  <2> SUFFICES ASSUME NEW u \in Tmos PROVE SlotOK(u)' BY DEF SlotInv
  <2>1. CASE u = t
    <3>1. \A d \in Cores \ {c} : call[d].t = t => call[d].pc \in {"none", "cancelStore", "cancelOdp"}
      BY <1>0, <1>3 DEF TimeoutTypeOK, CallType, InCall
    <3>2. \A f \in Events : hdr[f].tmo = t => ~Live(f) BY <1>3 DEF IInv, EventInv, EventOK
    <3>3. ~timer[t].armed BY <1>3 DEF IInv, TimerInv, TimerOK
    <3> QED BY <1>0, <1>2, <1>3, <1>4, <2>1, <3>1, <3>2, <3>3
               DEF SlotOK, InCall, Holding, TimeoutTypeOK, Live
  <2>2. CASE u # t
    <3>1. SlotOK(u) BY DEF IInv, SlotInv
    <3>2. SlotKept(u)
      BY <1>0, <1>2, <1>3, <1>4, <2>2, TmoAssumption
         DEF TimeoutTypeOK, SlotKept, Holds, IInv, CallInv, CallOK, Holding
    <3> QED BY <1>0, <1>1, <1>3, <3>1, <3>2, SlotSame DEF TimeoutTypeOK
  <2> QED BY <2>1, <2>2
<1> QED BY <1>1, <1>5, <1>6, <1>7, <1>8 DEF IInv
-----------------------------------------------------------------------------
(* Calls that have the timeout event in hand *)

\* The timeout of such a call is active, its ODP timer is off, and no other call
\* and no other place has an event of it.
LEMMA InHand ==
  ASSUME IInv, NEW c \in Cores, NEW t, NEW e, t = call[c].t, e = call[c].e, call[c].pc \in Holding
  PROVE  /\ t \in Tmos /\ e \in Events /\ tmo[t].alloc /\ ~idle[t] /\ tmo[t].kind # "ring"
         /\ place[e] = "call" /\ hdr[e].tmo = t /\ hdr[e].type \in {"ONESHOT", "PERIODIC"}
         /\ hdr[e].type = "ONESHOT" <=> tmo[t].kind = "oneshot"
         /\ ~timer[t].armed /\ timer[t].pend = 0 /\ ~timer[t].ending
         /\ \A f \in Events : Live(f) /\ hdr[f].tmo = t => f = e
         /\ \A d \in Cores \ {c} : call[d].t = t => call[d].pc \in {"cancelStore", "cancelOdp"}
         /\ \A d \in Cores \ {c} : call[d].pc \in Holding => call[d].e # e
<1>1. e \in Events /\ place[e] = "call" /\ hdr[e].tmo = t /\ tmo[t].alloc
  BY DEF IInv, CallInv, CallOK, Holding
<1>2. /\ t \in Tmos /\ ~idle[t] /\ tmo[t].kind # "ring" /\ hdr[e].type \in {"ONESHOT", "PERIODIC"}
      /\ hdr[e].type = "ONESHOT" <=> tmo[t].kind = "oneshot"
      /\ \A f \in Events : Live(f) /\ hdr[f].tmo = t => f = e
  BY <1>1 DEF IInv, EventInv, EventOK, Live
<1>3. ~timer[t].armed /\ timer[t].pend = 0 /\ ~timer[t].ending
  BY <1>1, <1>2 DEF IInv, TimerInv, TimerOK, Live
<1>4. \A d \in Cores \ {c} : call[d].pc \in Holding => call[d].e # e
  BY DEF IInv, CallInv, CallOK
<1>5. ASSUME NEW d \in Cores \ {c}, call[d].t = t PROVE call[d].pc \in {"cancelStore", "cancelOdp"}
  <2>1. call[d] \in CallType BY DEF IInv, TimeoutTypeOK
  <2>2. call[d].pc \notin Holding
    <3> SUFFICES ASSUME call[d].pc \in Holding PROVE FALSE OBVIOUS
    <3>1. call[d].e \in Events /\ Live(call[d].e) /\ hdr[call[d].e].tmo = t
      BY <1>5 DEF IInv, CallInv, CallOK, Live
    <3> QED BY <1>2, <1>4, <3>1
  <2>3. call[d].pc \notin {"none", "ringStart", "deleteFree"}
    BY <1>2, <1>5, TmoAssumption DEF IInv, CallInv, CallOK
  <2> QED BY <2>1, <2>2, <2>3 DEF CallType, PCs, Holding
<1> QED BY <1>1, <1>2, <1>3, <1>4, <1>5

\* The other calls go on when the call of c returns, whatever becomes of its
\* event and its timeout.
LEMMA OtherCalls ==
  ASSUME IInv, NEW c \in Cores, NEW t, NEW e, t = call[c].t, e = call[c].e, call[c].pc \in Holding,
         call'[c].pc = "none", call'[c].t = NoTmo, \A d \in Cores \ {c} : call'[d] = call[d],
         \A f \in Events \ {e} : place'[f] = place[f] /\ hdr'[f] = hdr[f],
         \A u \in Tmos : tmo'[u].alloc = tmo[u].alloc /\ tmo'[u].kind = tmo[u].kind,
         \A u \in Tmos \ {t} : timer'[u] = timer[u] /\ idle'[u] = idle[u]
  PROVE  CallInv'
<1> SUFFICES ASSUME NEW d \in Cores PROVE CallOK(d)' BY DEF CallInv
<1>1. CASE d = c BY <1>1 DEF CallOK, Holding
<1>2. CASE d # c
  <2>1. CallOK(d) /\ call[d] \in CallType BY DEF IInv, CallInv, TimeoutTypeOK
  <2>2. call[d].pc \in Holding => call[d].e \in Events \ {e} BY <1>2, <2>1, InHand DEF CallOK
  <2>3. call[d].pc \notin {"none", "cancelStore", "cancelOdp"} => call[d].t # t BY <1>2, InHand
  <2>4. call[d].pc # "none" => call[d].t \in Tmos BY <2>1 DEF CallOK, CallType
  <2>5. call[d].pc # "none" => /\ tmo'[call[d].t].alloc = tmo[call[d].t].alloc
                               /\ tmo'[call[d].t].kind = tmo[call[d].t].kind
    BY <2>4
  <2>6. \A b \in Cores : call'[b].pc # "none" => call'[b] = call[b] OBVIOUS
  <2>7. call[d].pc \in {"ringStart", "deleteFree"} =>
          idle'[call[d].t] = idle[call[d].t] /\ timer'[call[d].t] = timer[call[d].t]
    BY <2>3, <2>4
  <2>8. CallKept(d)
    BY <1>2, <2>1, <2>2, <2>5, <2>6, <2>7, TmoAssumption DEF CallKept, CallOK, Holding
  <2> QED BY <2>1, <2>8, CallSame
<1> QED BY <1>1, <1>2

\* The call of c gives its event back and tells that the timeout is inactive.
GivesBack(c, t, e) ==
  /\ t = call[c].t /\ e = call[c].e /\ call[c].pc \in Holding
  /\ hdr' = Untag(e) /\ place' = [place EXCEPT ![e] = "user"]
  /\ idle' = [idle EXCEPT ![t] = TRUE] /\ call' = Returned(c)
  /\ UNCHANGED <<now, timer, cycle, sets>>
  /\ \A u \in Tmos : /\ tmo'[u].alloc = tmo[u].alloc /\ tmo'[u].kind = tmo[u].kind
                     /\ u # t => tmo'[u] = tmo[u]

\* Nothing of the timeout is left, so that it may be set again or deleted.
LEMMA GiveBackKeeps ==
  ASSUME IInv, NEW c \in Cores, NEW t, NEW e, GivesBack(c, t, e), tmo' \in [Tmos -> TmoType]
  PROVE  IInv'
<1>0. TimeoutTypeOK BY DEF IInv
<1>1. t = call[c].t /\ e = call[c].e BY DEF GivesBack
<1>2. call[c].pc \in Holding BY DEF GivesBack
<1>3. /\ t \in Tmos /\ e \in Events /\ tmo[t].alloc /\ ~idle[t] /\ tmo[t].kind # "ring"
      /\ place[e] = "call" /\ hdr[e].tmo = t
      /\ ~timer[t].armed /\ timer[t].pend = 0 /\ ~timer[t].ending
      /\ \A f \in Events : Live(f) /\ hdr[f].tmo = t => f = e
      /\ \A d \in Cores \ {c} : call[d].t = t => call[d].pc \in {"cancelStore", "cancelOdp"}
      /\ \A d \in Cores \ {c} : call[d].pc \in Holding => call[d].e # e
  BY <1>1, <1>2, InHand
<1>4. /\ hdr' = [hdr EXCEPT ![e] = NoTag] /\ place' = [place EXCEPT ![e] = "user"]
      /\ idle' = [idle EXCEPT ![t] = TRUE] /\ timer' = timer /\ cycle' = cycle /\ now' = now
      /\ \A u \in Tmos : /\ tmo'[u].alloc = tmo[u].alloc /\ tmo'[u].kind = tmo[u].kind
                         /\ u # t => tmo'[u] = tmo[u]
  BY <1>1 DEF GivesBack, Untag
<1>5. call'[c].pc = "none" /\ call'[c].t = NoTmo /\ \A d \in Cores \ {c} : call'[d] = call[d]
  BY <1>0 DEF TimeoutTypeOK, GivesBack, Returned, NoCall
<1>6. CallInv'
  <2>1. \A f \in Events \ {e} : place'[f] = place[f] /\ hdr'[f] = hdr[f]
    BY <1>0, <1>4 DEF TimeoutTypeOK
  <2>2. \A u \in Tmos \ {t} : timer'[u] = timer[u] /\ idle'[u] = idle[u]
    BY <1>0, <1>4 DEF TimeoutTypeOK
  <2>3. \A u \in Tmos : tmo'[u].alloc = tmo[u].alloc /\ tmo'[u].kind = tmo[u].kind BY <1>4
  <2> QED BY <1>1, <1>2, <1>5, <2>1, <2>2, <2>3, OtherCalls
<1>7. TimeoutTypeOK'
  <2>1. call' \in [Cores -> CallType] BY <1>0, NoCallType DEF TimeoutTypeOK, GivesBack, Returned
  <2>2. hdr' \in [Events -> TagType] BY <1>0, <1>4 DEF TimeoutTypeOK, TagType, NoTag
  <2> QED BY <1>0, <1>4, <2>1, <2>2 DEF TimeoutTypeOK, GivesBack
<1>8. EventInv'
  BY <1>0, <1>1, <1>3, <1>4, <1>5, TmoAssumption
     DEF IInv, TimeoutTypeOK, EventInv, EventOK, Live, NoTag
<1>9. TimerInv'
  BY <1>0, <1>3, <1>4 DEF IInv, TimeoutTypeOK, TimerInv, TimerOK
<1>10. SlotInv'
  <2> SUFFICES ASSUME NEW u \in Tmos PROVE SlotOK(u)' BY DEF SlotInv
  <2>1. CASE u = t BY <1>0, <1>4, <2>1 DEF SlotOK, TimeoutTypeOK
  <2>2. CASE u # t
    <3>1. SlotOK(u) BY DEF IInv, SlotInv
    <3>2. SlotKept(u)
      BY <1>0, <1>1, <1>3, <1>4, <1>5, <2>2, TmoAssumption DEF TimeoutTypeOK, SlotKept, Holds, NoTag
    <3> QED BY <1>0, <1>4, <1>7, <3>1, <3>2, SlotSame DEF TimeoutTypeOK
  <2> QED BY <2>1, <2>2
<1> QED BY <1>7, <1>6, <1>8, <1>9, <1>10 DEF IInv

\* The call of c starts the ODP timer with its event for the next slot.
StartsTimer(c, t, e, tick) ==
  /\ t = call[c].t /\ e = call[c].e /\ call[c].pc \in {"setStart", "ackStart"}
  /\ timer' = ArmedTimer(t, tick, e) /\ place' = [place EXCEPT ![e] = "timer"]
  /\ call' = Returned(c)
  /\ UNCHANGED <<now, tmo, hdr, idle, sets>>
  /\ \A u \in Tmos \ {t} : cycle'[u] = cycle[u]
  /\ tmo[t].kind # "oneshot" =>
       /\ tick = tmo[t].last
       /\ tmo[t].last = Slot(t, cycle[t].fired - 1 + Skipped(t))'
       /\ Skipped(t)' >= 0 /\ (tmo[t].kind = "noskip" => Skipped(t)' = 0)

\* The event goes from the call to the timer.
LEMMA StartTimerKeeps ==
  ASSUME IInv, NEW c \in Cores, NEW t, NEW e, NEW tick \in Nat, StartsTimer(c, t, e, tick),
         cycle' \in [Tmos -> CycleType]
  PROVE  IInv'
<1>0. TimeoutTypeOK BY DEF IInv
<1>1. t = call[c].t /\ e = call[c].e BY DEF StartsTimer
<1>2. call[c].pc \in Holding BY DEF StartsTimer, Holding
<1>3. /\ t \in Tmos /\ e \in Events /\ tmo[t].alloc /\ ~idle[t] /\ tmo[t].kind # "ring"
      /\ place[e] = "call" /\ hdr[e].tmo = t
      /\ ~timer[t].armed /\ timer[t].pend = 0 /\ ~timer[t].ending
      /\ \A f \in Events : Live(f) /\ hdr[f].tmo = t => f = e
      /\ \A d \in Cores \ {c} : call[d].t = t => call[d].pc \in {"cancelStore", "cancelOdp"}
      /\ \A d \in Cores \ {c} : call[d].pc \in Holding => call[d].e # e
  BY <1>1, <1>2, InHand
<1>4. /\ place' = [place EXCEPT ![e] = "timer"] /\ tmo' = tmo /\ hdr' = hdr /\ idle' = idle /\ now' = now
      /\ \A u \in Tmos \ {t} : cycle'[u] = cycle[u]
  BY <1>1 DEF StartsTimer
<1>5. call'[c].pc = "none" /\ call'[c].t = NoTmo /\ \A d \in Cores \ {c} : call'[d] = call[d]
  BY <1>0 DEF TimeoutTypeOK, StartsTimer, Returned, NoCall
<1>6. /\ timer'[t].armed /\ timer'[t].tick = tick /\ timer'[t].e = e
      /\ timer'[t].pend = timer[t].pend /\ timer'[t].ending = timer[t].ending
      /\ \A u \in Tmos \ {t} : timer'[u] = timer[u]
  BY <1>0, <1>1, <1>3 DEF TimeoutTypeOK, StartsTimer, ArmedTimer, TimerType
<1>7. CallInv'
  BY <1>0, <1>1, <1>2, <1>3, <1>4, <1>5, <1>6, OtherCalls DEF TimeoutTypeOK
<1>8. TimeoutTypeOK'
  <2>1. call' \in [Cores -> CallType] BY <1>0, NoCallType DEF TimeoutTypeOK, StartsTimer, Returned
  <2>2. timer' \in [Tmos -> TimerType]
    <3>1. timer \in [Tmos -> TimerType] BY <1>0 DEF TimeoutTypeOK
    <3> QED BY <1>3, <3>1, ArmedType DEF StartsTimer
  <2> QED BY <1>0, <1>4, <2>1, <2>2 DEF TimeoutTypeOK, StartsTimer
<1>9. EventInv'
  BY <1>0, <1>1, <1>3, <1>4, <1>5, <1>6, TmoAssumption
     DEF IInv, TimeoutTypeOK, EventInv, EventOK, Live
<1>10. TimerInv'
  BY <1>0, <1>3, <1>4, <1>6 DEF IInv, TimeoutTypeOK, TimerInv, TimerOK
<1>11. SlotInv'
  <2> SUFFICES ASSUME NEW u \in Tmos PROVE SlotOK(u)' BY DEF SlotInv
  <2>1. CASE u = t
    <3>1. \A d \in Cores : ~Holds(d, t)' BY <1>3, <1>5, TmoAssumption DEF Holds, Holding
    <3>2. \A f \in Events : hdr[f].tmo = t /\ hdr[f].type = "PERIODIC" => place'[f] \notin {"queue", "rcvd"}
      BY <1>0, <1>3, <1>4 DEF TimeoutTypeOK, Live
    <3>3. tmo[t].kind # "oneshot" =>
            /\ tick = tmo[t].last
            /\ tmo[t].last = Slot(t, cycle[t].fired - 1 + Skipped(t))'
            /\ Skipped(t)' >= 0 /\ (tmo[t].kind = "noskip" => Skipped(t)' = 0)
      BY <1>1 DEF StartsTimer
    <3> QED BY <1>4, <1>6, <2>1, <3>1, <3>2, <3>3 DEF SlotOK, Holds, Holding
  <2>2. CASE u # t
    <3>1. SlotOK(u) BY DEF IInv, SlotInv
    <3>2. SlotKept(u)
      BY <1>0, <1>1, <1>3, <1>4, <1>5, <1>6, <2>2, TmoAssumption DEF TimeoutTypeOK, SlotKept, Holds
    <3> QED BY <1>0, <1>4, <1>8, <3>1, <3>2, SlotSame DEF TimeoutTypeOK
  <2> QED BY <2>1, <2>2
<1> QED BY <1>8, <1>7, <1>9, <1>10, <1>11 DEF IInv

\* A late event of a timeout without skipping is sent at once.
SendsAtOnce(c, t, e) ==
  /\ t = call[c].t /\ e = call[c].e /\ call[c].pc = "ackStart"
  /\ place' = [place EXCEPT ![e] = "queue"] /\ cycle' = [cycle EXCEPT ![t].fired = @ + 1]
  /\ call' = Returned(c)
  /\ tmo[t].last < now + Near
  /\ UNCHANGED <<now, tmo, timer, hdr, idle, sets>>

\* The event goes from the call to the queue, and the slot counts as served.
LEMMA SendAtOnceKeeps ==
  ASSUME IInv, NEW c \in Cores, NEW t, NEW e, SendsAtOnce(c, t, e)
  PROVE  IInv'
<1>0. TimeoutTypeOK BY DEF IInv
<1>1. t = call[c].t /\ e = call[c].e BY DEF SendsAtOnce
<1>2. call[c].pc = "ackStart" /\ call[c].pc \in Holding BY DEF SendsAtOnce, Holding
<1>3. /\ t \in Tmos /\ e \in Events /\ tmo[t].alloc /\ ~idle[t] /\ tmo[t].kind # "ring"
      /\ place[e] = "call" /\ hdr[e].tmo = t /\ ~timer[t].armed
      /\ \A f \in Events : Live(f) /\ hdr[f].tmo = t => f = e
      /\ \A d \in Cores \ {c} : call[d].t = t => call[d].pc \in {"cancelStore", "cancelOdp"}
      /\ \A d \in Cores \ {c} : call[d].pc \in Holding => call[d].e # e
  BY <1>1, <1>2, InHand
<1>4. /\ place' = [place EXCEPT ![e] = "queue"] /\ cycle' = [cycle EXCEPT ![t].fired = @ + 1]
      /\ tmo' = tmo /\ timer' = timer /\ hdr' = hdr /\ idle' = idle /\ now' = now /\ sets' = sets
      /\ tmo[t].last < now + Near
  BY DEF SendsAtOnce
<1>5. call'[c].pc = "none" /\ call'[c].t = NoTmo /\ \A d \in Cores \ {c} : call'[d] = call[d]
  BY <1>0 DEF TimeoutTypeOK, SendsAtOnce, Returned, NoCall
<1>6. TimeoutTypeOK'
  <2>1. call' \in [Cores -> CallType] BY <1>0, NoCallType DEF TimeoutTypeOK, SendsAtOnce, Returned
  <2>2. cycle' \in [Tmos -> CycleType]
    <3>1. cycle \in [Tmos -> CycleType] BY <1>0 DEF TimeoutTypeOK
    <3> QED BY <1>3, <1>4, <3>1, FiredType
  <2> QED BY <1>0, <1>4, <2>1, <2>2 DEF TimeoutTypeOK
<1>7. CallInv'
  <2>1. \A f \in Events \ {e} : place'[f] = place[f] /\ hdr'[f] = hdr[f]
    BY <1>0, <1>4 DEF TimeoutTypeOK
  <2> QED BY <1>1, <1>2, <1>4, <1>5, <2>1, OtherCalls
<1>8. EventInv'
  BY <1>0, <1>1, <1>3, <1>4, <1>5, TmoAssumption DEF IInv, TimeoutTypeOK, EventInv, EventOK, Live
<1>9. TimerInv'
  BY <1>0, <1>3, <1>4 DEF IInv, TimeoutTypeOK, TimerInv, TimerOK
<1>10. SlotInv'
  <2> SUFFICES ASSUME NEW u \in Tmos PROVE SlotOK(u)' BY DEF SlotInv
  <2>1. CASE u = t
    <3>1. \A d \in Cores : ~Holds(d, t)' BY <1>3, <1>5, TmoAssumption DEF Holds, Holding
    <3>2. tmo[t].kind \in {"skip", "noskip"} BY <1>1, <1>2 DEF IInv, CallInv, CallOK
    <3>3. /\ tmo[t].last = cycle[t].first + (cycle[t].fired + Skipped(t)) * Period
          /\ Skipped(t) >= 0 /\ (tmo[t].kind = "noskip" => Skipped(t) = 0)
      BY <1>1, <1>2, <1>3, <3>2 DEF IInv, SlotInv, SlotOK, Slot, InCall, Holding
    <3>4. /\ cycle'[t].first = cycle[t].first /\ cycle'[t].fired = cycle[t].fired + 1
          /\ cycle'[t].skips = cycle[t].skips /\ cycle[t].fired \in Nat
      BY <1>0, <1>3, <1>4 DEF TimeoutTypeOK, CycleType
    <3>5. Skipped(t)' = Skipped(t) BY <1>4, <3>4 DEF Skipped
    <3>6. Slot(t, cycle[t].fired - 1 + Skipped(t))' = tmo[t].last
      <4>1. Skipped(t) \in Int /\ cycle[t].fired + 1 - 1 + Skipped(t) = cycle[t].fired + Skipped(t)
        BY <1>0, <1>3, <3>4 DEF Skipped, TimeoutTypeOK, TmoType, CycleType
      <4> QED BY <3>3, <3>4, <3>5, <4>1 DEF Slot
    <3> QED BY <1>3, <1>4, <2>1, <3>1, <3>3, <3>5, <3>6 DEF SlotOK, Holds, Holding
  <2>2. CASE u # t
    <3>1. SlotOK(u) BY DEF IInv, SlotInv
    <3>2. SlotKept(u)
      BY <1>0, <1>1, <1>3, <1>4, <1>5, <2>2, TmoAssumption DEF TimeoutTypeOK, SlotKept, Holds
    <3> QED BY <1>0, <1>4, <1>6, <3>1, <3>2, SlotSame DEF TimeoutTypeOK
  <2> QED BY <2>1, <2>2
<1> QED BY <1>6, <1>7, <1>8, <1>9, <1>10 DEF IInv

\* The call of c keeps the event for another try, or to skip slots.
GoesOn(c, t) ==
  /\ t = call[c].t /\ call[c].pc \in {"ackStart", "ackSkip"}
  /\ call'[c].t = t /\ call'[c].e = call[c].e
  /\ \A d \in Cores \ {c} : call'[d] = call[d]
  /\ \/ call'[c].pc = "ackStart" /\ tmo'[t].last - Period < now + Near
     \/ call'[c].pc = "ackSkip" /\ tmo'[t].last < now + Near /\ tmo[t].kind = "skip"
  /\ \A u \in Tmos : /\ tmo'[u].alloc = tmo[u].alloc /\ tmo'[u].kind = tmo[u].kind
                     /\ u # t => tmo'[u] = tmo[u]
  /\ tmo'[t].last = cycle[t].first + (cycle[t].fired + tmo'[t].skips - cycle[t].skips) * Period
  /\ tmo'[t].skips >= cycle[t].skips
  /\ tmo[t].kind = "noskip" => tmo'[t].skips = cycle[t].skips
  /\ UNCHANGED <<now, timer, hdr, place, idle, cycle, sets>>

\* The event stays with the call, for a slot that is accounted for.
LEMMA GoOnKeeps ==
  ASSUME IInv, TimeoutTypeOK', NEW c \in Cores, NEW t, GoesOn(c, t)
  PROVE  IInv'
<1>0. TimeoutTypeOK BY DEF IInv
<1>1. t = call[c].t /\ call[c].pc \in Holding BY DEF GoesOn, Holding
<1>2. /\ t \in Tmos /\ tmo[t].alloc /\ ~idle[t] /\ ~timer[t].armed /\ hdr[call[c].e].tmo = t
      /\ call[c].e \in Events /\ place[call[c].e] = "call"
      /\ \A f \in Events : Live(f) /\ hdr[f].tmo = t => f = call[c].e
      /\ \A d \in Cores \ {c} : call[d].t = t => call[d].pc \in {"cancelStore", "cancelOdp"}
  BY <1>1, InHand
<1>3. /\ timer' = timer /\ hdr' = hdr /\ place' = place /\ idle' = idle /\ cycle' = cycle /\ now' = now
      /\ \A u \in Tmos : /\ tmo'[u].alloc = tmo[u].alloc /\ tmo'[u].kind = tmo[u].kind
                         /\ u # t => tmo'[u] = tmo[u]
  BY DEF GoesOn
<1>4. \A d \in Cores : /\ call'[d].t = call[d].t /\ call'[d].e = call[d].e
                       /\ call'[d].pc \in Holding <=> call[d].pc \in Holding
                       /\ d # c => call'[d] = call[d]
  BY <1>1 DEF GoesOn, Holding
<1>5. CallInv'
  <2> SUFFICES ASSUME NEW d \in Cores PROVE CallOK(d)' BY DEF CallInv
  <2>1. CallOK(d) /\ (call[d].pc # "none" => call[d].t \in Tmos)
    BY <1>0 DEF IInv, CallInv, CallOK, TimeoutTypeOK, CallType
  <2>2. CASE d = c
    <3>1. tmo[t].kind \in {"skip", "noskip"} BY <1>1, <2>1, <2>2 DEF GoesOn, CallOK
    <3> QED BY <1>1, <1>2, <1>3, <1>4, <2>1, <2>2, <3>1, TmoAssumption DEF GoesOn, CallOK, Holding
  <2>3. CASE d # c
    <3>1. CallKept(d) BY <1>3, <1>4, <2>1, <2>3 DEF CallKept, CallOK
    <3> QED BY <2>1, <3>1, CallSame
  <2> QED BY <2>2, <2>3
<1>6. EventInv'
  <2>1. \A f \in Events : Live(f)' <=> Live(f) BY <1>3 DEF Live
  <2>2. \A f \in Events : EventOK(f) /\ (Live(f) => hdr[f].tmo \in Tmos)
    BY DEF IInv, EventInv, EventOK, Live
  <2> QED BY <1>3, <1>4, <2>1, <2>2 DEF EventInv, EventOK
<1>7. TimerInv' BY <1>3 DEF IInv, TimerInv, TimerOK
<1>8. SlotInv'
  <2> SUFFICES ASSUME NEW u \in Tmos PROVE SlotOK(u)' BY DEF SlotInv
  <2>1. CASE u = t
    <3>1. \A d \in Cores \ {c} : ~Holds(d, t)' BY <1>2, <1>4 DEF Holds, Holding
    <3>2. \A f \in Events : hdr[f].tmo = t /\ hdr[f].type = "PERIODIC" => place[f] \notin {"queue", "rcvd"}
      BY <1>2 DEF Live
    <3>3. Holds(c, t)' /\ ~InCall(t, {"setStart"})' /\ InCall(t, Holding)'
      BY <1>1, <1>2, <1>4, <3>1 DEF Holds, Holding, InCall, GoesOn
    <3>4. /\ tmo'[t].skips \in Nat /\ cycle[t].skips \in Nat /\ cycle[t].fired \in Nat
      BY <1>0, <1>2 DEF TimeoutTypeOK, TmoType, CycleType
    <3>5. Skipped(t)' >= 0 /\ (tmo[t].kind = "noskip" => Skipped(t)' = 0)
      BY <1>3, <3>4 DEF GoesOn, Skipped
    <3>6. tmo'[t].last = Slot(t, cycle[t].fired + Skipped(t))'
      <4>1. cycle[t].fired + (tmo'[t].skips - cycle[t].skips) = cycle[t].fired + tmo'[t].skips - cycle[t].skips
        BY <3>4
      <4> QED BY <1>3, <4>1 DEF GoesOn, Slot, Skipped
    <3>7. ASSUME NEW d \in Cores, call'[d].t = t, call'[d].pc \in {"ackStart", "ackSkip"}
          PROVE  /\ call'[d].pc = "ackStart" => tmo'[t].last - Period < now' + Near
                 /\ call'[d].pc = "ackSkip" => tmo'[t].last < now' + Near
      <4>1. d = c BY <3>1, <3>7 DEF Holds, Holding
      <4> QED BY <1>3, <4>1 DEF GoesOn
    <3>8. \A d \in Cores : ~(call'[d].t = t /\ call'[d].pc = "setStart")
      BY <3>3 DEF InCall
    <3>9. /\ timer'[t] = timer[t] /\ ~timer'[t].armed
          /\ \A f \in Events : ~(/\ hdr'[f].tmo = t /\ hdr'[f].type = "PERIODIC"
                                /\ place'[f] \in {"queue", "rcvd"})
          /\ tmo'[t].kind = tmo[t].kind
      BY <1>2, <1>3, <3>2
    <3> QED BY <2>1, <3>3, <3>5, <3>6, <3>7, <3>8, <3>9 DEF SlotOK
  <2>2. CASE u # t
    <3>1. SlotOK(u) BY DEF IInv, SlotInv
    <3>2. SlotKept(u) BY <1>1, <1>3, <1>4, <2>2 DEF SlotKept, Holds
    <3> QED BY <1>0, <1>3, <3>1, <3>2, SlotSame DEF TimeoutTypeOK
  <2> QED BY <2>1, <2>2
<1> QED BY <1>5, <1>6, <1>7, <1>8 DEF IInv

\* The start of the ODP timer in the set functions gives the event to the timer, for
\* the first slot, or back to the application.
LEMMA StartKeeps ==
  ASSUME IInv, NEW c \in Cores, NEW ret \in Rets, SetStart(c, ret)
  PROVE  IInv'
<1>0. TimeoutTypeOK BY DEF IInv
<1>1. PICK t, e : t = call[c].t /\ e = call[c].e OBVIOUS
<1>2. call[c].pc = "setStart" /\ call[c].pc \in Holding BY DEF SetStart, Holding
<1>3. t \in Tmos /\ e \in Events /\ ~idle[t] /\ tmo[t].kind # "ring" BY <1>1, <1>2, InHand
<1>4. tmo[t] \in TmoType /\ call[c].tick \in Int /\ now \in Nat
  BY <1>0, <1>3 DEF TimeoutTypeOK, CallType
<1>5. PICK tick : tick = StartTick(c) OBVIOUS
<1>6. tick \in Nat BY <1>4, <1>5 DEF StartTick
<1>7. CASE ret = "SUCCESS"
  <2>1. /\ timer' = ArmedTimer(t, tick, e) /\ place' = [place EXCEPT ![e] = "timer"]
        /\ cycle' = [cycle EXCEPT ![t] = [first |-> tick, fired |-> 1, skips |-> tmo[t].skips]]
        /\ call' = Returned(c) /\ UNCHANGED <<now, tmo, hdr, idle, sets>>
    BY <1>1, <1>5, <1>7 DEF SetStart
  <2>2. cycle \in [Tmos -> CycleType] BY <1>0 DEF TimeoutTypeOK
  <2>3. cycle' \in [Tmos -> CycleType] BY <1>3, <1>4, <1>6, <2>1, <2>2 DEF CycleType, TmoType
  <2>4. /\ cycle'[t] = [first |-> tick, fired |-> 1, skips |-> tmo[t].skips]
        /\ \A u \in Tmos \ {t} : cycle'[u] = cycle[u]
    BY <1>3, <2>1, <2>2
  <2>5. Skipped(t)' = 0 /\ Slot(t, cycle[t].fired - 1 + Skipped(t))' = tick
    <3>1. Skipped(t)' = 0 BY <1>4, <2>1, <2>4 DEF Skipped, TmoType
    <3>2. cycle'[t].fired - 1 + Skipped(t)' = 0 /\ 0 * Period = 0 BY <2>4, <3>1, TmoAssumption
    <3> QED BY <1>6, <2>4, <3>1, <3>2 DEF Slot
  <2>6. tmo[t].kind # "oneshot" => tick = tmo[t].last
    <3> SUFFICES ASSUME tmo[t].kind # "oneshot" PROVE tick = tmo[t].last OBVIOUS
    <3>1. tmo[t].kind \in {"skip", "noskip"} BY <1>3, <1>4 DEF TmoType, AllKinds
    <3>2. call[c].tick = tmo[t].last BY <1>1, <1>2, <1>3, <3>1 DEF IInv, SlotInv, SlotOK
    <3> QED BY <1>4, <1>5, <3>2 DEF StartTick, TmoType
  <2>7. StartsTimer(c, t, e, tick) BY <1>1, <1>2, <2>1, <2>4, <2>5, <2>6 DEF StartsTimer
  <2> QED BY <1>6, <2>3, <2>7, StartTimerKeeps
<1>8. CASE ret # "SUCCESS"
  <2>1. /\ hdr' = Untag(e) /\ place' = [place EXCEPT ![e] = "user"]
        /\ tmo' = [tmo EXCEPT ![t].state = "IDLE"] /\ idle' = [idle EXCEPT ![t] = TRUE]
        /\ call' = Returned(c) /\ UNCHANGED <<now, timer, cycle, sets>>
    BY <1>1, <1>8 DEF SetStart
  <2>2. tmo \in [Tmos -> TmoType] BY <1>0 DEF TimeoutTypeOK
  <2>3. tmo' \in [Tmos -> TmoType] BY <1>3, <2>1, <2>2, StateType
  <2>4. \A u \in Tmos : /\ tmo'[u].alloc = tmo[u].alloc /\ tmo'[u].kind = tmo[u].kind
                        /\ u # t => tmo'[u] = tmo[u]
    BY <2>1, <2>2 DEF TmoType
  <2>5. GivesBack(c, t, e) BY <1>1, <1>2, <2>1, <2>4 DEF GivesBack
  <2> QED BY <2>3, <2>5, GiveBackKeeps
<1> QED BY <1>7, <1>8

\* What an acknowledgement in progress knows of the slots.
LEMMA AckKnows ==
  ASSUME IInv, NEW c \in Cores, NEW t, t = call[c].t, call[c].pc \in {"ackStart", "ackSkip"}
  PROVE  /\ t \in Tmos /\ call[c].e \in Events /\ tmo[t].kind \in {"skip", "noskip"}
         /\ tmo[t].last \in Nat /\ tmo[t].skips \in Nat /\ now \in Nat
         /\ cycle[t].first \in Nat /\ cycle[t].fired \in Nat /\ cycle[t].skips \in Nat
         /\ tmo[t].last = cycle[t].first + (cycle[t].fired + tmo[t].skips - cycle[t].skips) * Period
         /\ tmo[t].skips >= cycle[t].skips
         /\ tmo[t].kind = "noskip" => tmo[t].skips = cycle[t].skips
         /\ call[c].pc = "ackStart" => tmo[t].last - Period < now + Near
         /\ call[c].pc = "ackSkip" => tmo[t].last < now + Near /\ tmo[t].kind = "skip"
<1>1. call[c].pc \in Holding BY DEF Holding
<1>2. t \in Tmos /\ call[c].e \in Events /\ ~idle[t]
      /\ \A d \in Cores \ {c} : call[d].t = t => call[d].pc \in {"cancelStore", "cancelOdp"}
  BY <1>1, InHand
<1>3. tmo[t].kind \in {"skip", "noskip"} /\ (call[c].pc = "ackSkip" => tmo[t].kind = "skip")
  BY DEF IInv, CallInv, CallOK
<1>4. ~InCall(t, {"setStart"}) BY <1>2 DEF InCall
<1>5. /\ tmo[t].last \in Nat /\ tmo[t].skips \in Nat /\ now \in Nat
      /\ cycle[t].first \in Nat /\ cycle[t].fired \in Nat /\ cycle[t].skips \in Nat
  BY <1>2 DEF IInv, TimeoutTypeOK, TmoType, CycleType
<1>6. /\ tmo[t].last = Slot(t, cycle[t].fired + Skipped(t))
      /\ Skipped(t) >= 0 /\ (tmo[t].kind = "noskip" => Skipped(t) = 0)
      /\ call[c].pc = "ackStart" => tmo[t].last - Period < now + Near
      /\ call[c].pc = "ackSkip" => tmo[t].last < now + Near
  BY <1>2, <1>3, <1>4 DEF IInv, SlotInv, SlotOK
<1>7. cycle[t].fired + (tmo[t].skips - cycle[t].skips) = cycle[t].fired + tmo[t].skips - cycle[t].skips
  BY <1>5
<1> QED BY <1>2, <1>3, <1>5, <1>6, <1>7 DEF Slot, Skipped

\* An ack that gives up.
LEMMA AckFailKeeps ==
  ASSUME IInv, NEW c \in Cores, call[c].pc \in {"ackStart", "ackSkip"}, AckFail(c),
         UNCHANGED <<now, timer, cycle, sets>>, tmo' \in [Tmos -> TmoType],
         \A u \in Tmos : /\ tmo'[u].alloc = tmo[u].alloc /\ tmo'[u].kind = tmo[u].kind
                         /\ u # call[c].t => tmo'[u] = tmo[u]
  PROVE  IInv'
<1>1. PICK t, e : t = call[c].t /\ e = call[c].e OBVIOUS
<1>2. GivesBack(c, t, e) BY <1>1 DEF GivesBack, AckFail, Holding
<1> QED BY <1>2, GiveBackKeeps

\* One try of an ack, with any answer of ODP.
LEMMA AckStartKeeps ==
  ASSUME IInv, NEW c \in Cores, NEW ret \in Rets, AckStart(c, ret)
  PROVE  IInv'
<1>0. TimeoutTypeOK BY DEF IInv
<1>1. PICK t, e : t = call[c].t /\ e = call[c].e OBVIOUS
<1>2. call[c].pc = "ackStart" /\ call[c].pc \in {"ackStart", "ackSkip"} BY DEF AckStart
<1>3. /\ t \in Tmos /\ e \in Events /\ tmo[t].kind \in {"skip", "noskip"}
      /\ tmo[t].last \in Nat /\ tmo[t].skips \in Nat /\ now \in Nat
      /\ cycle[t].first \in Nat /\ cycle[t].fired \in Nat /\ cycle[t].skips \in Nat
      /\ tmo[t].last = cycle[t].first + (cycle[t].fired + tmo[t].skips - cycle[t].skips) * Period
      /\ tmo[t].skips >= cycle[t].skips
      /\ tmo[t].kind = "noskip" => tmo[t].skips = cycle[t].skips
      /\ tmo[t].last - Period < now + Near
  BY <1>1, <1>2, AckKnows
<1>4. tmo' = tmo /\ now' = now /\ sets' = sets BY DEF AckStart
<1>5. tmo' \in [Tmos -> TmoType] BY <1>0, <1>4 DEF TimeoutTypeOK
<1>6. ~timer[t].armed BY <1>1, <1>2, InHand DEF Holding
<1>7. ret = "TOO_NEAR" => tmo[t].last < now + Near
  BY <1>1, <1>6 DEF AckStart, OdpStart
<1>8. CASE ret = "SUCCESS"
  <2>1. /\ timer' = ArmedTimer(t, tmo[t].last, e) /\ place' = [place EXCEPT ![e] = "timer"]
        /\ cycle' = [cycle EXCEPT ![t].fired = @ + 1]
        /\ call' = Returned(c) /\ UNCHANGED <<hdr, idle>>
    BY <1>1, <1>8 DEF AckStart
  <2>2. cycle \in [Tmos -> CycleType] BY <1>0 DEF TimeoutTypeOK
  <2>3. cycle' \in [Tmos -> CycleType] BY <1>3, <2>1, <2>2, FiredType
  <2>4. /\ cycle'[t].first = cycle[t].first /\ cycle'[t].fired = cycle[t].fired + 1
        /\ cycle'[t].skips = cycle[t].skips /\ \A u \in Tmos \ {t} : cycle'[u] = cycle[u]
    BY <1>3, <2>1, <2>2 DEF CycleType
  <2>5. Skipped(t)' >= 0 /\ (tmo[t].kind = "noskip" => Skipped(t)' = 0)
    BY <1>3, <1>4, <2>4 DEF Skipped
  <2>6. tmo[t].last = Slot(t, cycle[t].fired - 1 + Skipped(t))'
    <3>1. cycle[t].fired + 1 - 1 + (tmo[t].skips - cycle[t].skips) = cycle[t].fired + tmo[t].skips - cycle[t].skips
      BY <1>3
    <3> QED BY <1>3, <1>4, <2>4, <3>1 DEF Slot, Skipped
  <2>7. StartsTimer(c, t, e, tmo[t].last)
    BY <1>1, <1>2, <1>4, <2>1, <2>4, <2>5, <2>6 DEF StartsTimer
  <2> QED BY <1>3, <2>3, <2>7, StartTimerKeeps
<1>9. CASE AckFail(c) /\ UNCHANGED <<timer, cycle>>
  BY <1>2, <1>4, <1>5, <1>9, AckFailKeeps
<1>10. CASE call' = [call EXCEPT ![c].pc = "ackStart", ![c].tries = @ - 1]
            /\ call[c].tries - 1 >= 1 /\ UNCHANGED <<timer, hdr, place, idle, cycle>>
  <2>1. call \in [Cores -> CallType] BY <1>0 DEF TimeoutTypeOK
  <2>2. call' \in [Cores -> CallType] BY <1>10, <2>1, TmoAssumption DEF CallType, PCs
  <2>3. TimeoutTypeOK' BY <1>0, <1>4, <1>10, <2>2 DEF TimeoutTypeOK
  <2>4. /\ call'[c].pc = "ackStart" /\ call'[c].t = t /\ call'[c].e = call[c].e
        /\ \A d \in Cores \ {c} : call'[d] = call[d]
    BY <1>1, <1>10, <2>1 DEF CallType
  <2>5. GoesOn(c, t) BY <1>1, <1>2, <1>3, <1>4, <1>10, <2>4 DEF GoesOn
  <2> QED BY <2>3, <2>5, GoOnKeeps
<1>11. CASE ret = "TOO_NEAR" /\ place' = [place EXCEPT ![e] = "queue"]
            /\ cycle' = [cycle EXCEPT ![t].fired = @ + 1] /\ call' = Returned(c)
            /\ UNCHANGED <<timer, hdr, idle>>
  <2>1. SendsAtOnce(c, t, e) BY <1>1, <1>2, <1>4, <1>7, <1>11 DEF SendsAtOnce
  <2> QED BY <2>1, SendAtOnceKeeps
<1>12. CASE ret = "TOO_NEAR" /\ tmo[t].kind = "skip" /\ call' = [call EXCEPT ![c].pc = "ackSkip"]
            /\ UNCHANGED <<timer, hdr, place, idle, cycle>>
  <2>1. call \in [Cores -> CallType] BY <1>0 DEF TimeoutTypeOK
  <2>2. call' \in [Cores -> CallType] BY <1>12, <2>1 DEF CallType, PCs
  <2>3. TimeoutTypeOK' BY <1>0, <1>4, <1>12, <2>2 DEF TimeoutTypeOK
  <2>4. /\ call'[c].pc = "ackSkip" /\ call'[c].t = t /\ call'[c].e = call[c].e
        /\ \A d \in Cores \ {c} : call'[d] = call[d]
    BY <1>1, <1>12, <2>1 DEF CallType
  <2>5. GoesOn(c, t) BY <1>1, <1>2, <1>3, <1>4, <1>7, <1>12, <2>4 DEF GoesOn
  <2> QED BY <2>3, <2>5, GoOnKeeps
<1>13. CASE ret = "BUSY"
  <2>1. AckRetry(c) /\ UNCHANGED <<timer, cycle>> BY <1>13 DEF AckStart
  <2>2. call[c].tries \in Int BY <1>0 DEF TimeoutTypeOK, CallType
  <2>3. CASE call[c].tries - 1 < 1 BY <1>9, <2>1, <2>3 DEF AckRetry
  <2>4. CASE ~(call[c].tries - 1 < 1) BY <1>10, <2>1, <2>2, <2>4 DEF AckRetry
  <2> QED BY <2>3, <2>4
<1>14. CASE ret = "FAIL" BY <1>9, <1>14 DEF AckStart
<1>15. CASE ret = "TOO_NEAR" /\ tmo[t].kind = "noskip"
  <2>1. AckNoskip(c) /\ UNCHANGED timer BY <1>1, <1>15 DEF AckStart
  <2> QED BY <1>1, <1>9, <1>11, <1>15, <2>1 DEF AckNoskip
<1>16. CASE ret = "TOO_NEAR" /\ tmo[t].kind = "skip" BY <1>1, <1>12, <1>16 DEF AckStart
<1> QED BY <1>3, <1>8, <1>13, <1>14, <1>15, <1>16 DEF Rets

\* The number of skipped slots is the least that leaves the past: it reaches the
\* current tick, and not a period more.
LEMMA SkipsBound ==
  ASSUME NEW t \in Tmos, tmo[t].last \in Nat, now \in Nat, tmo[t].last < now + Near
  PROVE  /\ Skips(t) \in Nat /\ Skips(t) >= 1
         /\ tmo[t].last + Skips(t) * Period - Period < now + Near
<1>1. CASE now > tmo[t].last
  <2>1. PICK d, q : d = now - tmo[t].last /\ q = d \div Period OBVIOUS
  <2>2. d \in Nat /\ Period \in Nat \ {0} /\ Near \in Nat BY <1>1, <2>1, TmoAssumption
  <2>3. q \in Nat /\ q * Period <= d BY SMTT(60), <2>1, <2>2
  <2>4. Skips(t) = q + 1 BY <1>1, <2>1 DEF Skips
  <2>5. (q + 1) * Period = q * Period + Period /\ q * Period \in Nat BY <2>2, <2>3
  <2> QED BY <2>1, <2>2, <2>3, <2>4, <2>5, TmoAssumption
<1>2. CASE ~(now > tmo[t].last)
  <2>1. Skips(t) = 1 BY <1>2 DEF Skips
  <2> QED BY <2>1, TmoAssumption
<1> QED BY <1>1, <1>2

\* An ack that skips slots tries again, or gives up.
LEMMA AckSkipKeeps ==
  ASSUME IInv, NEW c \in Cores, AckSkip(c)
  PROVE  IInv'
<1>0. TimeoutTypeOK BY DEF IInv
<1>1. PICK t, k : t = call[c].t /\ k = Skips(t) OBVIOUS
<1>2. call[c].pc = "ackSkip" /\ call[c].pc \in {"ackStart", "ackSkip"} BY DEF AckSkip
<1>3. /\ t \in Tmos /\ call[c].e \in Events
      /\ tmo[t].last \in Nat /\ tmo[t].skips \in Nat /\ now \in Nat
      /\ cycle[t].first \in Nat /\ cycle[t].fired \in Nat /\ cycle[t].skips \in Nat
      /\ tmo[t].last = cycle[t].first + (cycle[t].fired + tmo[t].skips - cycle[t].skips) * Period
      /\ tmo[t].skips >= cycle[t].skips
      /\ tmo[t].last < now + Near /\ tmo[t].kind = "skip"
  BY <1>1, <1>2, AckKnows
<1>4. k \in Nat /\ k >= 1 /\ tmo[t].last + k * Period - Period < now + Near
  BY <1>1, <1>3, SkipsBound
<1>5. tmo' = [tmo EXCEPT ![t].last = @ + k * Period, ![t].skips = @ + k]
      /\ AckRetry(c) /\ UNCHANGED <<now, timer, cycle, sets>>
  BY <1>1 DEF AckSkip
<1>6. tmo \in [Tmos -> TmoType] /\ call \in [Cores -> CallType] BY <1>0 DEF TimeoutTypeOK
<1>7. /\ tmo'[t].last = tmo[t].last + k * Period /\ tmo'[t].skips = tmo[t].skips + k
      /\ \A u \in Tmos : /\ tmo'[u].alloc = tmo[u].alloc /\ tmo'[u].kind = tmo[u].kind
                         /\ u # t => tmo'[u] = tmo[u]
  BY <1>3, <1>5, <1>6 DEF TmoType
<1>8. tmo' \in [Tmos -> TmoType]
  <2>1. tmo[t].last + k * Period \in Nat /\ tmo[t].skips + k \in Nat BY <1>3, <1>4, TmoAssumption
  <2> QED BY ZenonT(40), <1>3, <1>5, <1>6, <2>1 DEF TmoType
<1>9. CASE call[c].tries - 1 < 1
  <2>1. AckFail(c) BY <1>5, <1>9 DEF AckRetry
  <2> QED BY <1>1, <1>2, <1>5, <1>7, <1>8, <2>1, AckFailKeeps
<1>10. CASE ~(call[c].tries - 1 < 1)
  <2>1. /\ call' = [call EXCEPT ![c].pc = "ackStart", ![c].tries = @ - 1]
        /\ UNCHANGED <<hdr, place, idle>>
    BY <1>5, <1>10 DEF AckRetry
  <2>2. call' \in [Cores -> CallType] BY <1>6, <1>10, <2>1, TmoAssumption DEF CallType, PCs
  <2>3. TimeoutTypeOK' BY <1>0, <1>5, <1>8, <2>1, <2>2 DEF TimeoutTypeOK
  <2>4. /\ call'[c].pc = "ackStart" /\ call'[c].t = t /\ call'[c].e = call[c].e
        /\ \A d \in Cores \ {c} : call'[d] = call[d]
    BY <1>1, <1>6, <2>1 DEF CallType
  <2>5. tmo'[t].last = cycle[t].first + (cycle[t].fired + tmo'[t].skips - cycle[t].skips) * Period
    <3>1. PICK n : n = cycle[t].fired + tmo[t].skips - cycle[t].skips OBVIOUS
    <3>2. n \in Int /\ cycle[t].fired + tmo'[t].skips - cycle[t].skips = n + k
      BY <1>3, <1>4, <1>7, <3>1
    <3>3. (n + k) * Period = n * Period + k * Period /\ n * Period \in Int /\ k * Period \in Int
      BY <1>4, <3>2, TmoAssumption
    <3> QED BY <1>3, <1>7, <3>1, <3>2, <3>3
  <2>6. tmo'[t].last - Period < now + Near BY <1>3, <1>4, <1>7, TmoAssumption
  <2>7. tmo'[t].skips >= cycle[t].skips BY <1>3, <1>4, <1>7
  <2>8. GoesOn(c, t) BY <1>1, <1>2, <1>3, <1>5, <1>7, <2>1, <2>4, <2>5, <2>6, <2>7 DEF GoesOn
  <2> QED BY <2>3, <2>8, GoOnKeeps
<1> QED BY <1>9, <1>10

-----------------------------------------------------------------------------
(* em_tmo_ack() *)

\* The timeout of an event that is acknowledged, and who else is at it.
LEMMA Received ==
  ASSUME IInv, NEW r \in Events, NEW t, t = hdr[r].tmo, place[r] = "rcvd", hdr[r].type = "PERIODIC"
  PROVE  /\ t \in Tmos /\ tmo[t].alloc /\ ~idle[t] /\ tmo[t].kind \in {"skip", "noskip"}
         /\ ~timer[t].armed /\ timer[t].pend = 0 /\ ~timer[t].ending
         /\ \A f \in Events : Live(f) /\ hdr[f].tmo = t => f = r
         /\ \A d \in Cores : call[d].t = t => call[d].pc \in {"cancelStore", "cancelOdp"}
<1>1. /\ t \in Tmos /\ tmo[t].alloc /\ ~idle[t] /\ tmo[t].kind # "ring" /\ tmo[t].kind # "oneshot"
      /\ \A f \in Events : Live(f) /\ hdr[f].tmo = t => f = r
  BY DEF IInv, EventInv, EventOK, Live
<1>2. tmo[t].kind \in {"skip", "noskip"} BY <1>1 DEF IInv, TimeoutTypeOK, TmoType, AllKinds
<1>3. ~timer[t].armed /\ timer[t].pend = 0 /\ ~timer[t].ending
  BY <1>1 DEF IInv, TimerInv, TimerOK, Live
<1>4. ASSUME NEW d \in Cores, call[d].t = t PROVE call[d].pc \in {"cancelStore", "cancelOdp"}
  <2>1. call[d] \in CallType BY DEF IInv, TimeoutTypeOK
  <2>2. call[d].pc \notin Holding
    <3> SUFFICES ASSUME call[d].pc \in Holding PROVE FALSE OBVIOUS
    <3>1. call[d].e \in Events /\ Live(call[d].e) /\ hdr[call[d].e].tmo = t /\ place[call[d].e] = "call"
      BY <1>4 DEF IInv, CallInv, CallOK, Live
    <3> QED BY <1>1, <3>1
  <2>3. call[d].pc \notin {"none", "ringStart", "deleteFree"}
    BY <1>1, <1>4, TmoAssumption DEF IInv, CallInv, CallOK
  <2> QED BY <2>1, <2>2, <2>3 DEF CallType, PCs, Holding
<1> QED BY <1>1, <1>2, <1>3, <1>4

\* The timeout has been cancelled.
AckCancelled(r, next, t) ==
  /\ t = hdr[r].tmo /\ place[r] = "rcvd" /\ hdr[r].type = "PERIODIC"
  /\ next = r \/ place[next] = "user"
  /\ hdr' = Untag(next) /\ place' = [place EXCEPT ![r] = "old", ![next] = "user"]
  /\ idle' = [idle EXCEPT ![t] = TRUE]
  /\ UNCHANGED <<now, tmo, timer, call, cycle, sets>>

\* It is inactive now.
LEMMA AckCancelledKeeps ==
  ASSUME IInv, NEW r \in Events, NEW next \in Events, NEW t, AckCancelled(r, next, t)
  PROVE  IInv'
<1>0. TimeoutTypeOK BY DEF IInv
<1>1. /\ t \in Tmos /\ tmo[t].alloc /\ ~idle[t] /\ tmo[t].kind \in {"skip", "noskip"}
      /\ ~timer[t].armed /\ timer[t].pend = 0 /\ ~timer[t].ending
      /\ \A f \in Events : Live(f) /\ hdr[f].tmo = t => f = r
      /\ \A d \in Cores : call[d].t = t => call[d].pc \in {"cancelStore", "cancelOdp"}
  BY Received DEF AckCancelled
<1>2. /\ place'[next] = "user" /\ hdr'[next] = NoTag /\ (next # r => place'[r] = "old")
      /\ \A f \in Events \ {r, next} : place'[f] = place[f]
      /\ \A f \in Events \ {next} : hdr'[f] = hdr[f]
      /\ place[next] \in {"user", "rcvd"}
      /\ place[r] = "rcvd" /\ hdr[r].type = "PERIODIC" /\ hdr[r].tmo = t
  BY <1>0 DEF TimeoutTypeOK, Untag, AckCancelled
<1>3. /\ tmo' = tmo /\ timer' = timer /\ call' = call /\ cycle' = cycle /\ now' = now /\ sets' = sets
      /\ idle'[t] /\ \A u \in Tmos \ {t} : idle'[u] = idle[u]
  BY <1>0, <1>1 DEF TimeoutTypeOK, AckCancelled
<1>4. TimeoutTypeOK'
  <2>1. hdr' \in [Events -> TagType] BY <1>0, TagsType DEF TimeoutTypeOK, AckCancelled
  <2>2. place' \in [Events -> {"user", "call", "timer", "queue", "rcvd", "old"}]
    BY <1>0 DEF TimeoutTypeOK, AckCancelled
  <2>3. idle' \in [Tmos -> BOOLEAN] BY <1>0 DEF TimeoutTypeOK, AckCancelled
  <2> QED BY <1>0, <1>3, <2>1, <2>2, <2>3 DEF TimeoutTypeOK
<1>5. CallInv'
  <2> SUFFICES ASSUME NEW d \in Cores PROVE CallOK(d)' BY DEF CallInv
  <2>1. CallOK(d) /\ (call[d].pc # "none" => call[d].t \in Tmos)
    BY <1>0 DEF IInv, CallInv, CallOK, TimeoutTypeOK, CallType
  <2>2. call[d].pc \in Holding => call[d].e \in Events /\ place[call[d].e] = "call"
    BY <2>1 DEF CallOK
  <2>3. call[d].pc \in Holding => call[d].e # next /\ call[d].e # r BY <1>2, <2>2
  <2>4. call[d].pc \in {"ringStart", "deleteFree"} => call[d].t # t BY <1>1
  <2>5. CallKept(d) BY <1>2, <1>3, <2>1, <2>2, <2>3, <2>4 DEF CallKept, CallOK
  <2> QED BY <2>1, <2>5, CallSame
<1>6. EventInv'
  <2> SUFFICES ASSUME NEW f \in Events PROVE EventOK(f)' BY DEF EventInv
  <2>1. CASE f = next BY <1>2, <2>1 DEF EventOK, Live
  <2>2. CASE f = r /\ f # next BY <1>2, <2>2 DEF EventOK, Live
  <2>3. CASE f # r /\ f # next
    <3>1. EventOK(f) /\ place'[f] = place[f] /\ hdr'[f] = hdr[f] BY <1>2, <2>3 DEF IInv, EventInv
    <3>2. \A g \in Events : Live(g)' => Live(g) /\ hdr'[g] = hdr[g] BY <1>2 DEF Live
    <3>3. Live(f) => hdr[f].tmo \in Tmos \ {t} BY <1>1, <2>3, <3>1 DEF EventOK, Live
    <3> QED BY <1>3, <3>1, <3>2, <3>3 DEF EventOK, Live
  <2> QED BY <2>1, <2>2, <2>3
<1>7. TimerInv'
  <2> SUFFICES ASSUME NEW u \in Tmos PROVE TimerOK(u)' BY DEF TimerInv
  <2>1. TimerOK(u) BY DEF IInv, TimerInv
  <2>2. CASE u = t BY <1>1, <1>3, <2>1, <2>2 DEF TimerOK
  <2>3. CASE u # t
    <3>1. tmo[u].kind # "ring" /\ timer[u].armed => timer[u].e \notin {r, next}
      BY <1>2, <2>1 DEF TimerOK
    <3> QED BY <1>2, <1>3, <2>1, <2>3, <3>1 DEF TimerOK
  <2> QED BY <2>2, <2>3
<1>8. SlotInv'
  <2> SUFFICES ASSUME NEW u \in Tmos PROVE SlotOK(u)' BY DEF SlotInv
  <2>1. CASE u = t BY <1>3, <2>1 DEF SlotOK
  <2>2. CASE u # t
    <3>1. SlotOK(u) BY DEF IInv, SlotInv
    <3>2. \A f \in Events : hdr'[f].tmo = u => hdr'[f] = hdr[f] /\ place'[f] \in {place[f], "old"}
      BY <1>2, TmoAssumption DEF NoTag
    <3>3. SlotKept(u) BY <1>3, <2>2, <3>2 DEF SlotKept, Holds
    <3> QED BY <1>0, <1>3, <3>1, <3>3, SlotSame DEF TimeoutTypeOK
  <2> QED BY <2>1, <2>2
<1> QED BY <1>4, <1>5, <1>6, <1>7, <1>8 DEF IInv

\* The timeout goes on.
AckNext(c, r, next, t) ==
  /\ call[c].pc = "none"
  /\ t = hdr[r].tmo /\ place[r] = "rcvd" /\ hdr[r].type = "PERIODIC"
  /\ next = r \/ place[next] = "user"
  /\ tmo' = [tmo EXCEPT ![t].last = @ + Period]
  /\ hdr' = [hdr EXCEPT ![next] = [type |-> "PERIODIC", tmo |-> t]]
  /\ place' = [place EXCEPT ![r] = "old", ![next] = "call"]
  /\ call' = [call EXCEPT ![c] = [NoCall EXCEPT !.pc = "ackStart", !.t = t, !.e = next,
                                                !.tries = AckTries]]
  /\ UNCHANGED <<now, timer, idle, cycle, sets>>

\* The next slot is a period later, and the next event is in the hand of the call.
LEMMA AckNextKeeps ==
  ASSUME IInv, NEW c \in Cores, NEW r \in Events, NEW next \in Events, NEW t,
         AckNext(c, r, next, t)
  PROVE  IInv'
<1>0. TimeoutTypeOK BY DEF IInv
<1>1. /\ t \in Tmos /\ tmo[t].alloc /\ ~idle[t] /\ tmo[t].kind \in {"skip", "noskip"}
      /\ ~timer[t].armed /\ timer[t].pend = 0 /\ ~timer[t].ending
      /\ \A f \in Events : Live(f) /\ hdr[f].tmo = t => f = r
      /\ \A d \in Cores : call[d].t = t => call[d].pc \in {"cancelStore", "cancelOdp"}
  BY Received DEF AckNext
<1>2. /\ place'[next] = "call" /\ hdr'[next].type = "PERIODIC" /\ hdr'[next].tmo = t
      /\ next # r => place'[r] = "old"
      /\ \A f \in Events \ {r, next} : place'[f] = place[f]
      /\ \A f \in Events \ {next} : hdr'[f] = hdr[f]
      /\ place[next] \in {"user", "rcvd"}
      /\ place[r] = "rcvd" /\ hdr[r].type = "PERIODIC" /\ hdr[r].tmo = t
  BY <1>0 DEF TimeoutTypeOK, AckNext
<1>3. timer' = timer /\ idle' = idle /\ cycle' = cycle /\ now' = now /\ sets' = sets BY DEF AckNext
<1>4. /\ tmo'[t].last = tmo[t].last + Period
      /\ \A u \in Tmos : /\ tmo'[u].alloc = tmo[u].alloc /\ tmo'[u].kind = tmo[u].kind
                         /\ tmo'[u].skips = tmo[u].skips /\ (u # t => tmo'[u] = tmo[u])
  BY <1>0, <1>1 DEF TimeoutTypeOK, TmoType, AckNext
<1>5. /\ call'[c].pc = "ackStart" /\ call'[c].t = t /\ call'[c].e = next
      /\ \A d \in Cores \ {c} : call'[d] = call[d]
      /\ call[c].pc = "none"
  <2>1. DOMAIN call = Cores BY <1>0 DEF TimeoutTypeOK
  <2> QED BY <2>1 DEF NoCall, AckNext
<1>6. TimeoutTypeOK'
  <2>1. hdr' \in [Events -> TagType] BY <1>0, <1>1, TagsType DEF TimeoutTypeOK, AckNext
  <2>2. place' \in [Events -> {"user", "call", "timer", "queue", "rcvd", "old"}]
    BY <1>0 DEF TimeoutTypeOK, AckNext
  <2>3. tmo' \in [Tmos -> TmoType]
    <3>1. tmo \in [Tmos -> TmoType] BY <1>0 DEF TimeoutTypeOK
    <3> QED BY <1>1, <3>1, TmoAssumption DEF TmoType, AckNext
  <2>4. call' \in [Cores -> CallType]
    <3>1. call \in [Cores -> CallType] BY <1>0 DEF TimeoutTypeOK
    <3>2. [NoCall EXCEPT !.pc = "ackStart", !.t = t, !.e = next, !.tries = AckTries] \in CallType
      <4>1. AckTries \in 0 .. AckTries BY TmoAssumption
      <4> QED BY <1>1, <4>1, NoCallType DEF CallType, PCs
    <3> QED BY <3>1, <3>2 DEF AckNext
  <2> QED BY <1>0, <1>3, <2>1, <2>2, <2>3, <2>4 DEF TimeoutTypeOK
<1>7. CallInv'
  <2> SUFFICES ASSUME NEW d \in Cores PROVE CallOK(d)' BY DEF CallInv
  <2>1. CallOK(d) /\ (call[d].pc # "none" => call[d].t \in Tmos)
    BY <1>0 DEF IInv, CallInv, CallOK, TimeoutTypeOK, CallType
  <2>2. \A b \in Cores : call[b].pc \in Holding => call[b].e # next /\ call[b].e # r
    BY <1>2 DEF IInv, CallInv, CallOK
  <2>3. CASE d = c
    BY <1>1, <1>2, <1>4, <1>5, <2>2, <2>3, TmoAssumption DEF CallOK, Holding
  <2>4. CASE d # c
    <3>1. call[d].pc \in {"ringStart", "deleteFree"} => call[d].t # t BY <1>1
    <3>2. call[d].pc \in Holding => call[d].e \in Events \ {r, next} BY <2>1, <2>2 DEF CallOK
    <3>3. CallKept(d) BY <1>2, <1>3, <1>4, <1>5, <2>1, <2>4, <3>1, <3>2 DEF CallKept, CallOK
    <3> QED BY <2>1, <3>3, CallSame
  <2> QED BY <2>3, <2>4
<1>8. EventInv'
  <2> SUFFICES ASSUME NEW f \in Events PROVE EventOK(f)' BY DEF EventInv
  <2>1. \A g \in Events : Live(g)' => g = next \/ (Live(g) /\ hdr'[g] = hdr[g] /\ g # r)
    BY <1>2 DEF Live
  <2>2. CASE f = next
    <3>1. \A g \in Events : Live(g)' /\ hdr'[g].tmo = t => g = next BY <1>1, <2>1
    <3> QED BY <1>1, <1>2, <1>3, <1>4, <1>5, <2>2, <3>1 DEF EventOK, Live, Holding
  <2>3. CASE f = r /\ f # next BY <1>2, <2>3 DEF EventOK, Live
  <2>4. CASE f # r /\ f # next
    <3>1. EventOK(f) /\ place'[f] = place[f] /\ hdr'[f] = hdr[f] BY <1>2, <2>4 DEF IInv, EventInv
    <3>2. Live(f)' => Live(f) /\ hdr[f].tmo \in Tmos \ {t}
      BY <1>1, <2>1, <2>4, <3>1 DEF EventOK, Live
    <3>3. \A g \in Events : Live(g)' /\ hdr'[g].tmo = hdr[f].tmo /\ Live(f)' => g = f
      BY <1>2, <2>1, <3>1, <3>2 DEF EventOK
    <3>4. place[f] = "call" => \E d \in Cores : call'[d].pc \in Holding /\ call'[d].e = f
      BY <1>5, <3>1 DEF EventOK, Holding
    <3> QED BY <1>3, <1>4, <3>1, <3>2, <3>3, <3>4 DEF EventOK
  <2> QED BY <2>2, <2>3, <2>4
<1>9. TimerInv'
  <2> SUFFICES ASSUME NEW u \in Tmos PROVE TimerOK(u)' BY DEF TimerInv
  <2>1. TimerOK(u) BY DEF IInv, TimerInv
  <2>2. tmo[u].kind # "ring" /\ timer[u].armed => timer[u].e \notin {r, next}
    BY <1>2, <2>1 DEF TimerOK
  <2> QED BY <1>2, <1>3, <1>4, <2>1, <2>2 DEF TimerOK
<1>10. SlotInv'
  <2> SUFFICES ASSUME NEW u \in Tmos PROVE SlotOK(u)' BY DEF SlotInv
  <2>1. SlotOK(u) BY DEF IInv, SlotInv
  <2>2. CASE u = t
    <3>1. \A d \in Cores \ {c} : ~Holds(d, t)' BY <1>1, <1>5 DEF Holds, Holding
    <3>2. ~InCall(t, Holding) /\ ~InCall(t, {"setStart"}) BY <1>1 DEF InCall, Holding
    <3>3. /\ tmo[t].last = Slot(t, cycle[t].fired - 1 + Skipped(t))
          /\ Skipped(t) >= 0 /\ (tmo[t].kind = "noskip" => Skipped(t) = 0)
          /\ tmo[t].last < now + Near
      BY <1>1, <1>2, <2>1, <2>2, <3>2 DEF SlotOK
    <3>4. /\ tmo[t].last \in Nat /\ tmo[t].skips \in Nat /\ now \in Nat
          /\ cycle[t].first \in Nat /\ cycle[t].fired \in Nat /\ cycle[t].skips \in Nat
      BY <1>0, <1>1 DEF TimeoutTypeOK, TmoType, CycleType
    <3>5. Skipped(t)' = Skipped(t) BY <1>1, <1>3, <1>4 DEF Skipped
    <3>6. tmo'[t].last = Slot(t, cycle[t].fired + Skipped(t))'
      <4>1. PICK n : n = cycle[t].fired - 1 + Skipped(t) OBVIOUS
      <4>2. n \in Int /\ cycle[t].fired + Skipped(t) = n + 1 BY <3>4, <4>1 DEF Skipped
      <4>3. (n + 1) * Period = n * Period + Period /\ n * Period \in Int BY <4>2, TmoAssumption
      <4>4. tmo[t].last = cycle[t].first + n * Period BY <3>3, <4>1 DEF Slot
      <4>5. Slot(t, cycle[t].fired + Skipped(t))' = cycle[t].first + (n + 1) * Period
        BY <1>3, <3>5, <4>2 DEF Slot
      <4> QED BY <1>4, <3>4, <4>3, <4>4, <4>5, TmoAssumption
    <3>7. tmo'[t].last - Period < now + Near BY <1>4, <3>3, <3>4, TmoAssumption
    <3>8. \A f \in Events : hdr'[f].tmo = t /\ hdr'[f].type = "PERIODIC" => place'[f] \notin {"queue", "rcvd"}
      BY <1>1, <1>2 DEF Live
    <3>9. Holds(c, t)' /\ InCall(t, Holding)' /\ ~InCall(t, {"setStart"})'
      BY <1>1, <1>5, <3>1 DEF Holds, InCall, Holding
    <3> QED BY <1>1, <1>3, <1>4, <1>5, <2>2, <3>1, <3>3, <3>5, <3>6, <3>7, <3>8, <3>9
            DEF SlotOK, Holds, Holding
  <2>3. CASE u # t
    <3>1. \A f \in Events : hdr'[f].tmo = u => hdr'[f] = hdr[f] /\ place'[f] \in {place[f], "old"}
      BY <1>2, <2>3
    <3>2. \A d \in Cores : (Holds(d, u)' <=> Holds(d, u)) /\ (Holds(d, u) => call'[d] = call[d])
      BY <1>5, <2>3 DEF Holds, Holding
    <3>3. SlotKept(u) BY <1>3, <1>4, <2>3, <3>1, <3>2 DEF SlotKept
    <3> QED BY <1>0, <1>3, <2>1, <3>3, SlotSame DEF TimeoutTypeOK
  <2> QED BY <2>2, <2>3
<1> QED BY <1>6, <1>7, <1>8, <1>9, <1>10 DEF IInv

\* em_tmo_ack() of a cancelled timeout, or of one that goes on.
LEMMA AckKeeps ==
  ASSUME IInv, NEW c \in Cores, NEW r \in Events, NEW next \in Events, TmoAck(c, r, next)
  PROVE  IInv'
<1>1. PICK t : t = hdr[r].tmo OBVIOUS
<1>2. /\ call[c].pc = "none" /\ place[r] = "rcvd" /\ hdr[r].type = "PERIODIC"
      /\ next = r \/ place[next] = "user"
      /\ now' = now /\ timer' = timer /\ cycle' = cycle /\ sets' = sets
  BY DEF TmoAck
<1>3. CASE tmo[t].state # "ACTIVE"
  <2>1. /\ hdr' = Untag(next) /\ place' = [place EXCEPT ![r] = "old", ![next] = "user"]
        /\ idle' = [idle EXCEPT ![t] = TRUE] /\ tmo' = tmo /\ call' = call
    BY <1>1, <1>3 DEF TmoAck
  <2>2. AckCancelled(r, next, t) BY <1>1, <1>2, <2>1 DEF AckCancelled
  <2> QED BY <2>2, AckCancelledKeeps
<1>4. CASE tmo[t].state = "ACTIVE"
  <2>1. /\ tmo' = [tmo EXCEPT ![t].last = @ + Period]
        /\ hdr' = [hdr EXCEPT ![next] = [type |-> "PERIODIC", tmo |-> t]]
        /\ place' = [place EXCEPT ![r] = "old", ![next] = "call"]
        /\ call' = [call EXCEPT ![c] = [NoCall EXCEPT !.pc = "ackStart", !.t = t, !.e = next,
                                                      !.tries = AckTries]]
        /\ idle' = idle
    BY <1>1, <1>4 DEF TmoAck
  <2>2. AckNext(c, r, next, t) BY <1>1, <1>2, <2>1 DEF AckNext
  <2> QED BY <2>2, AckNextKeeps
<1> QED BY <1>3, <1>4

-----------------------------------------------------------------------------
(* Create, delete and rings: no event is at the timeout *)

\* The ODP timer of t is off, and no event is to come.
Quiet(t) == ~timer[t].armed /\ timer[t].pend = 0 /\ ~timer[t].ending

\* A new timeout: the handle was free, and inactive.
LEMMA CreateKeeps ==
  ASSUME IInv, NEW c \in Cores, NEW t \in Tmos, NEW kind \in Kinds, TmoCreate(c, t, kind)
  PROVE  IInv'
<1>1. TimeoutTypeOK /\ TimerOK(t) BY DEF IInv, TimerInv
<1>2. /\ ~tmo[t].alloc /\ idle[t] /\ idle'[t] /\ call' = call /\ place' = place /\ hdr' = hdr
      /\ now' = now /\ cycle' = cycle /\ tmo'[t].alloc
      /\ \A u \in Tmos \ {t} : tmo'[u] = tmo[u] /\ timer'[u] = timer[u] /\ idle'[u] = idle[u]
      /\ Quiet(t)'
  BY <1>1 DEF TimeoutTypeOK, TmoCreate, TimerOK, Quiet, Stopped
<1>3. TimeoutTypeOK'
  <2>1. kind \in AllKinds BY TmoAssumption
  <2>2. tmo' \in [Tmos -> TmoType] BY <1>1, <2>1 DEF TmoCreate, TimeoutTypeOK, TmoType
  <2>3. timer' \in [Tmos -> TimerType] BY <1>1, StoppedType DEF TmoCreate, TimeoutTypeOK
  <2>4. idle' \in [Tmos -> BOOLEAN] BY <1>1 DEF TmoCreate, TimeoutTypeOK
  <2> QED BY <1>1, <2>2, <2>3, <2>4 DEF TmoCreate, TimeoutTypeOK
<1>4. CallInv'
  <2> SUFFICES ASSUME NEW d \in Cores PROVE CallOK(d)' BY DEF CallInv
  <2>1. CallOK(d) /\ (call[d].pc # "none" => call[d].t \in Tmos \ {t})
    BY <1>1, <1>2 DEF IInv, CallInv, CallOK, TimeoutTypeOK, CallType
  <2>2. CallKept(d) BY <1>2, <2>1 DEF CallKept, CallOK
  <2> QED BY <2>1, <2>2, CallSame
<1>5. EventInv' BY <1>2, EventsStay DEF EventsKept
<1>6. TimerInv' BY <1>2 DEF IInv, TimerInv, TimerOK, Quiet
<1>7. SlotInv' BY <1>1, <1>2, SlotsStay, TmoAssumption DEF SlotKept, Holds, TimeoutTypeOK
<1> QED BY <1>3, <1>4, <1>5, <1>6, <1>7 DEF IInv

\* A timeout is deleted when it is inactive and no other call is on it.
LEMMA DeleteKeeps ==
  ASSUME IInv, NEW c \in Cores, NEW t \in Tmos, TmoDelete(c, t)
  PROVE  IInv'
<1>1. TimeoutTypeOK BY DEF IInv
<1>2. /\ idle[t] /\ tmo[t].alloc /\ idle' = idle /\ timer' = timer /\ place' = place /\ hdr' = hdr
      /\ now' = now /\ cycle' = cycle
      /\ \A u \in Tmos : /\ tmo'[u].alloc = tmo[u].alloc /\ tmo'[u].kind = tmo[u].kind
                         /\ tmo'[u].last = tmo[u].last /\ tmo'[u].skips = tmo[u].skips
  BY <1>1 DEF TimeoutTypeOK, TmoType, TmoDelete, DeleteAllowed
<1>3. /\ call[c].pc = "none" /\ call'[c].pc = "deleteFree" /\ call'[c].t = t
      /\ \A d \in Cores \ {c} : call'[d] = call[d] /\ call[d].t # t
  <2>1. DOMAIN call = Cores BY <1>1 DEF TimeoutTypeOK
  <2>2. /\ call[c].pc = "none" /\ call'[c].pc = "deleteFree" /\ call'[c].t = t
        /\ \A d \in Cores \ {c} : call'[d] = call[d]
    BY <2>1 DEF TmoDelete, NoCall
  <2>3. ASSUME NEW d \in Cores, call[d].t = t PROVE FALSE
    <3>1. call[d].pc \in PCs
      BY <1>1, <2>3, TmoAssumption DEF TimeoutTypeOK, CallType, IInv, CallInv, CallOK
    <3> QED BY <2>3, <3>1 DEF TmoDelete, DeleteAllowed, InCall
  <2> QED BY <2>2, <2>3
<1>4. TimeoutTypeOK'
  <2>1. tmo' \in [Tmos -> TmoType] BY <1>1, StateType DEF TmoDelete, TimeoutTypeOK
  <2>2. call' \in [Cores -> CallType]
    <3>1. "deleteFree" \in PCs /\ call \in [Cores -> CallType] BY <1>1 DEF PCs, TimeoutTypeOK
    <3> QED BY <3>1, EnterType DEF TmoDelete
  <2> QED BY <1>1, <2>1, <2>2 DEF TmoDelete, TimeoutTypeOK
<1>5. CallInv'
  <2> SUFFICES ASSUME NEW d \in Cores PROVE CallOK(d)' BY DEF CallInv
  <2>1. CASE d = c BY <1>2, <1>3, <2>1, TmoAssumption DEF CallOK, Holding
  <2>2. CASE d # c
    <3>1. CallOK(d) /\ (call[d].pc # "none" => call[d].t \in Tmos)
      BY <1>1 DEF IInv, CallInv, CallOK, TimeoutTypeOK, CallType
    <3>2. CallKept(d) BY <1>2, <1>3, <2>2, <3>1 DEF CallKept, CallOK, Holding
    <3> QED BY <3>1, <3>2, CallSame
  <2> QED BY <2>1, <2>2
<1>6. EventInv' BY <1>2, <1>3, EventsStay DEF EventsKept, Holding
<1>7. TimerInv' BY <1>2 DEF IInv, TimerInv, TimerOK
<1>8. SlotInv'
  <2>1. \A u \in Tmos : SlotKept(u) BY <1>2, <1>3 DEF SlotKept, Holds, Holding
  <2> QED BY <1>1, <1>2, <2>1, SlotsStay DEF TimeoutTypeOK
<1> QED BY <1>4, <1>5, <1>6, <1>7, <1>8 DEF IInv

\* It is freed by the only call on it.
LEMMA FreeKeeps ==
  ASSUME IInv, NEW c \in Cores, DeleteFree(c)
  PROVE  IInv'
<1>1. TimeoutTypeOK BY DEF IInv
<1>2. PICK t : t = call[c].t OBVIOUS
<1>3. t \in Tmos /\ idle[t] /\ \A d \in Cores \ {c} : call[d].t # t
  BY <1>1, <1>2 DEF IInv, CallInv, CallOK, TimeoutTypeOK, CallType, DeleteFree
<1>4. /\ idle' = idle /\ place' = place /\ hdr' = hdr /\ now' = now /\ cycle' = cycle
      /\ Quiet(t)' /\ \A u \in Tmos \ {t} : tmo'[u] = tmo[u] /\ timer'[u] = timer[u]
  BY <1>1, <1>2, <1>3 DEF TimeoutTypeOK, DeleteFree, Quiet, Stopped
<1>5. /\ call[c].pc = "deleteFree" /\ call'[c].pc = "none" /\ call'[c].t = NoTmo
      /\ \A d \in Cores \ {c} : call'[d] = call[d]
  BY <1>1 DEF TimeoutTypeOK, DeleteFree, Returned, NoCall
<1>6. TimeoutTypeOK'
  <2>1. tmo' \in [Tmos -> TmoType] BY <1>1 DEF DeleteFree, TimeoutTypeOK, TmoType, FreeTmo, AllKinds
  <2>2. timer' \in [Tmos -> TimerType]
    BY <1>1, StoppedType DEF DeleteFree, TimeoutTypeOK
  <2>3. call' \in [Cores -> CallType] BY <1>1, ReturnedType DEF DeleteFree, TimeoutTypeOK
  <2> QED BY <1>1, <2>1, <2>2, <2>3 DEF DeleteFree, TimeoutTypeOK
<1>7. CallInv'
  <2> SUFFICES ASSUME NEW d \in Cores PROVE CallOK(d)' BY DEF CallInv
  <2>1. CASE d = c BY <1>5, <2>1 DEF CallOK, Holding
  <2>2. CASE d # c
    <3>1. CallOK(d) /\ (call[d].pc # "none" => call[d].t \in Tmos \ {t})
      BY <1>1, <1>3, <2>2 DEF IInv, CallInv, CallOK, TimeoutTypeOK, CallType
    <3>2. CallKept(d) BY <1>4, <1>5, <2>2, <3>1, TmoAssumption DEF CallKept, CallOK, Holding
    <3> QED BY <3>1, <3>2, CallSame
  <2> QED BY <2>1, <2>2
<1>8. EventInv' BY <1>3, <1>4, <1>5, EventsStay DEF EventsKept, Holding
<1>9. TimerInv' BY <1>3, <1>4 DEF IInv, TimerInv, TimerOK, Quiet
<1>10. SlotInv'
  <2>1. \A u \in Tmos \ {t} : SlotKept(u)
    BY <1>2, <1>4, <1>5, TmoAssumption DEF SlotKept, Holds, Holding
  <2> QED BY <1>1, <1>3, <1>4, <2>1, SlotsStay DEF TimeoutTypeOK
<1> QED BY <1>6, <1>7, <1>8, <1>9, <1>10 DEF IInv

\* What a step on a ring leaves: no event is at it, and only one call, that
\* starts or deletes it, relies on its timer.
OnRing(t) ==
  /\ tmo[t].kind = "ring"
  /\ place' = place /\ hdr' = hdr /\ now' = now /\ cycle' = cycle
  /\ \A u \in Tmos : tmo'[u].alloc = tmo[u].alloc /\ tmo'[u].kind = tmo[u].kind
  /\ \A u \in Tmos \ {t} : tmo'[u] = tmo[u] /\ timer'[u] = timer[u] /\ idle'[u] = idle[u]
  /\ \A d \in Cores : call[d].pc \in Holding \/ call'[d].pc \in Holding => call'[d] = call[d]
  /\ TimerOK(t)'

\* A step on a ring concerns neither the events nor the slots of other timeouts.
LEMMA RingKeeps ==
  ASSUME IInv, NEW t \in Tmos, OnRing(t), TimeoutTypeOK', CallInv'
  PROVE  IInv'
<1>1. TimeoutTypeOK BY DEF IInv
<1>2. EventInv' BY EventsStay DEF OnRing, EventsKept
<1>3. TimerInv' BY DEF IInv, TimerInv, TimerOK, OnRing
<1>4. SlotInv'
  <2>1. \A u \in Tmos \ {t} : SlotKept(u) BY DEF SlotKept, Holds, OnRing
  <2>2. tmo'[t].kind = "ring" /\ now' \in Nat /\ now' >= now BY <1>1 DEF OnRing, TimeoutTypeOK
  <2> QED BY <2>1, <2>2, SlotsStay
<1> QED BY <1>2, <1>3, <1>4 DEF IInv

\* A ring gets another ODP timer, or state ACTIVE, while it is off and no call is on it.
LEMMA SetRingKeeps ==
  ASSUME IInv, NEW c \in Cores, NEW t \in Tmos, NEW mult \in Mults, SetRing(c, t, mult)
  PROVE  IInv'
<1>1. TimeoutTypeOK BY DEF IInv
<1>2. /\ call[c].pc = "none" /\ tmo[t].kind = "ring" /\ tmo[t].alloc /\ idle[t] /\ Quiet(t)
      /\ place' = place /\ hdr' = hdr /\ now' = now /\ cycle' = cycle /\ sets' \in 0 .. MaxSets
  BY <1>1, TmoAssumption DEF IInv, TimerInv, TimerOK, Quiet, SetRing, MaySet, TimeoutTypeOK
<1>3. \A d \in Cores : call[d].t # t
  <2> SUFFICES ASSUME NEW d \in Cores, call[d].t = t PROVE FALSE OBVIOUS
  <2>1. call[d].pc \in PCs BY <1>1, TmoAssumption DEF TimeoutTypeOK, CallType, IInv, CallInv, CallOK
  <2> QED BY <1>2, <2>1 DEF SetRing, MaySet, InCall
<1>4. \A u \in Tmos : tmo'[u].alloc = tmo[u].alloc /\ tmo'[u].kind = tmo[u].kind /\ (u # t => tmo'[u] = tmo[u])
  <2>1. CASE tmo' = tmo BY <2>1
  <2>2. CASE tmo' = [tmo EXCEPT ![t].state = "ACTIVE"] BY <1>1, <2>2 DEF TimeoutTypeOK, TmoType
  <2> QED BY <2>1, <2>2 DEF SetRing
<1>5. /\ timer' \in [Tmos -> TimerType] /\ Quiet(t)' /\ \A u \in Tmos \ {t} : timer'[u] = timer[u]
  <2>1. timer \in [Tmos -> TimerType] BY <1>1 DEF TimeoutTypeOK
  <2>2. CASE timer' = timer BY <1>2, <2>1, <2>2 DEF Quiet
  <2>3. ASSUME NEW s \in TimerType, ~s.armed, s.pend = 0, ~s.ending, timer' = [timer EXCEPT ![t] = s]
        PROVE  timer' \in [Tmos -> TimerType] /\ Quiet(t)' /\ \A u \in Tmos \ {t} : timer'[u] = timer[u]
    BY <2>1, <2>3 DEF Quiet
  <2>4. CASE timer' = [timer EXCEPT ![t] = [Stopped EXCEPT !.mult = mult]]
    <3>1. PICK s : s = [Stopped EXCEPT !.mult = mult] OBVIOUS
    <3>2. s \in TimerType /\ ~s.armed /\ s.pend = 0 /\ ~s.ending BY <3>1, StoppedType DEF Stopped
    <3> QED BY <2>3, <2>4, <3>1, <3>2
  <2>5. CASE timer' = [timer EXCEPT ![t] = Stopped]
    <3>1. Stopped \in TimerType /\ ~Stopped.armed /\ Stopped.pend = 0 /\ ~Stopped.ending
      BY StoppedType DEF Stopped
    <3> QED BY <2>3, <2>5, <3>1
  <2> QED BY <2>2, <2>4, <2>5 DEF SetRing
<1>6. CASE /\ tmo' = [tmo EXCEPT ![t].state = "ACTIVE"] /\ idle' = [idle EXCEPT ![t] = FALSE]
           /\ call' = [call EXCEPT ![c] = [NoCall EXCEPT !.pc = "ringStart", !.t = t]]
  <2>1. TimeoutTypeOK'
    <3>1. tmo \in [Tmos -> TmoType] /\ call \in [Cores -> CallType] /\ "ringStart" \in PCs
      BY <1>1 DEF TimeoutTypeOK, PCs
    <3>2. tmo' \in [Tmos -> TmoType] BY <1>6, <3>1, StateType
    <3>3. call' \in [Cores -> CallType] BY <1>6, <3>1, EnterType
    <3> QED BY <1>1, <1>2, <1>5, <1>6, <3>2, <3>3 DEF TimeoutTypeOK
  <2>2. /\ call'[c].pc = "ringStart" /\ call'[c].t = t /\ \A d \in Cores \ {c} : call'[d] = call[d]
        /\ ~idle'[t] /\ \A u \in Tmos \ {t} : idle'[u] = idle[u]
    BY <1>1, <1>6 DEF TimeoutTypeOK, NoCall
  <2>3. CallInv'
    <3> SUFFICES ASSUME NEW d \in Cores PROVE CallOK(d)' BY DEF CallInv
    <3>1. CASE d = c
      BY <1>2, <1>3, <1>4, <1>5, <2>2, <3>1, TmoAssumption DEF CallOK, Holding, Quiet
    <3>2. CASE d # c
      <4>1. CallOK(d) /\ (call[d].pc # "none" => call[d].t \in Tmos \ {t})
        BY <1>1, <1>3 DEF IInv, CallInv, CallOK, TimeoutTypeOK, CallType
      <4>2. CallKept(d) BY <1>2, <1>3, <1>4, <1>5, <2>2, <3>2, <4>1 DEF CallKept, CallOK, Holding
      <4> QED BY <4>1, <4>2, CallSame
    <3> QED BY <3>1, <3>2
  <2>4. OnRing(t) BY <1>2, <1>4, <1>5, <2>2 DEF OnRing, TimerOK, Quiet, Holding
  <2> QED BY <2>1, <2>3, <2>4, RingKeeps
<1>7. CASE tmo' = tmo /\ call' = call /\ idle' = idle
  <2>1. TimeoutTypeOK' BY <1>1, <1>2, <1>5, <1>7 DEF TimeoutTypeOK
  <2>2. CallInv'
    <3> SUFFICES ASSUME NEW d \in Cores PROVE CallOK(d)' BY DEF CallInv
    <3>1. CallOK(d) /\ (call[d].pc # "none" => call[d].t \in Tmos \ {t})
      BY <1>1, <1>3 DEF IInv, CallInv, CallOK, TimeoutTypeOK, CallType
    <3>2. CallKept(d) BY <1>2, <1>5, <1>7, <3>1 DEF CallKept, CallOK
    <3> QED BY <3>1, <3>2, CallSame
  <2>3. OnRing(t) BY <1>2, <1>4, <1>5, <1>7 DEF OnRing, TimerOK, Quiet
  <2> QED BY <2>1, <2>2, <2>3, RingKeeps
<1> QED BY <1>6, <1>7 DEF SetRing

\* The start of a ring, by the only call on it.
LEMMA RingStartKeeps ==
  ASSUME IInv, NEW c \in Cores, NEW ret \in Rets, RingStart(c, ret)
  PROVE  IInv'
<1>1. TimeoutTypeOK BY DEF IInv
<1>2. PICK t : t = call[c].t OBVIOUS
<1>3. /\ t \in Tmos /\ tmo[t].kind = "ring" /\ tmo[t].alloc /\ ~idle[t] /\ Quiet(t)
      /\ \A d \in Cores \ {c} : call[d].t # t
  BY <1>1, <1>2 DEF IInv, CallInv, CallOK, TimeoutTypeOK, CallType, RingStart, Quiet
<1>4. /\ call[c].pc = "ringStart" /\ call'[c].pc = "none" /\ call'[c].t = NoTmo
      /\ \A d \in Cores \ {c} : call'[d] = call[d]
      /\ place' = place /\ hdr' = hdr /\ now' = now /\ cycle' = cycle /\ sets' = sets
  BY <1>1 DEF TimeoutTypeOK, RingStart, Returned, NoCall
<1>5. call' \in [Cores -> CallType] BY <1>1, ReturnedType DEF RingStart, TimeoutTypeOK
<1>6. /\ tmo' \in [Tmos -> TmoType] /\ timer' \in [Tmos -> TimerType] /\ idle' \in [Tmos -> BOOLEAN]
      /\ \A u \in Tmos : tmo'[u].alloc = tmo[u].alloc /\ tmo'[u].kind = tmo[u].kind
      /\ \A u \in Tmos \ {t} : tmo'[u] = tmo[u] /\ timer'[u] = timer[u] /\ idle'[u] = idle[u]
      /\ TimerOK(t)'
  <2>1. tmo \in [Tmos -> TmoType] /\ timer \in [Tmos -> TimerType] /\ idle \in [Tmos -> BOOLEAN]
    BY <1>1 DEF TimeoutTypeOK
  <2>2. CASE timer' = [timer EXCEPT ![t].armed = TRUE] /\ tmo' = tmo /\ idle' = idle
    <3>1. timer' \in [Tmos -> TimerType] BY <2>1, <2>2 DEF TimerType
    <3>2. timer'[t].pend = timer[t].pend /\ timer'[t].ending = timer[t].ending
      BY <1>3, <2>1, <2>2 DEF TimerType
    <3> QED BY <1>3, <2>1, <2>2, <3>1, <3>2 DEF TimerOK, Quiet
  <2>3. CASE timer' = timer /\ tmo' = [tmo EXCEPT ![t].state = "IDLE"] /\ idle' = [idle EXCEPT ![t] = TRUE]
    <3>1. tmo' \in [Tmos -> TmoType] BY <1>3, <2>1, <2>3, StateType
    <3> QED BY <1>3, <2>1, <2>3, <3>1 DEF TmoType, TimerOK, Quiet
  <2> QED BY <1>2, <2>2, <2>3 DEF RingStart
<1>7. TimeoutTypeOK' BY <1>1, <1>4, <1>5, <1>6 DEF TimeoutTypeOK
<1>8. CallInv'
  <2> SUFFICES ASSUME NEW d \in Cores PROVE CallOK(d)' BY DEF CallInv
  <2>1. CASE d = c BY <1>4, <2>1 DEF CallOK, Holding
  <2>2. CASE d # c
    <3>1. CallOK(d) /\ (call[d].pc # "none" => call[d].t \in Tmos \ {t})
      BY <1>1, <1>3, <2>2 DEF IInv, CallInv, CallOK, TimeoutTypeOK, CallType
    <3>2. CallKept(d) BY <1>4, <1>6, <2>2, <3>1, TmoAssumption DEF CallKept, CallOK, Holding
    <3> QED BY <3>1, <3>2, CallSame
  <2> QED BY <2>1, <2>2
<1>9. OnRing(t) BY <1>3, <1>4, <1>6 DEF OnRing, Holding
<1> QED BY <1>3, <1>7, <1>8, <1>9, RingKeeps

-----------------------------------------------------------------------------
(* Cancel *)

\* A cancel has no event in hand: it may be on a timeout together with any call but
\* those that start a ring or free the timeout.
LEMMA CancelKeeps ==
  ASSUME IInv, NEW c \in Cores, NEW t \in Tmos, TmoCancel(c, t)
  PROVE  IInv'
<1>1. TimeoutTypeOK BY DEF IInv
<1>2. /\ call[c].pc = "none" /\ tmo[t].alloc
      /\ \A d \in Cores : call[d].t = t => call[d].pc \notin {"ringStart", "deleteFree"}
      /\ now' = now /\ tmo' = tmo /\ timer' = timer /\ hdr' = hdr /\ place' = place
      /\ idle' = idle /\ cycle' = cycle /\ sets' = sets
  BY DEF TmoCancel, InCall
<1>3. /\ call'[c].pc = "cancelStore" /\ call'[c].t = t /\ \A d \in Cores \ {c} : call'[d] = call[d]
  BY <1>1 DEF TimeoutTypeOK, TmoCancel, NoCall
<1>4. TimeoutTypeOK'
  <2>1. "cancelStore" \in PCs /\ call \in [Cores -> CallType] BY <1>1 DEF PCs, TimeoutTypeOK
  <2>2. call' \in [Cores -> CallType] BY <2>1, EnterType DEF TmoCancel
  <2> QED BY <1>1, <1>2, <2>2 DEF TimeoutTypeOK
<1>5. CallInv'
  <2> SUFFICES ASSUME NEW d \in Cores PROVE CallOK(d)' BY DEF CallInv
  <2>1. CASE d = c BY <1>2, <1>3, <2>1, TmoAssumption DEF CallOK, Holding
  <2>2. CASE d # c
    <3>1. CallOK(d) BY DEF IInv, CallInv
    <3>2. CallKept(d) BY <1>2, <1>3, <2>2, <3>1 DEF CallKept, CallOK, Holding
    <3> QED BY <3>1, <3>2, CallSame
  <2> QED BY <2>1, <2>2
<1>6. EventInv' BY <1>2, <1>3, EventsStay DEF EventsKept, Holding
<1>7. TimerInv' BY <1>2 DEF IInv, TimerInv, TimerOK
<1>8. SlotInv'
  <2>1. \A u \in Tmos : SlotKept(u) BY <1>2, <1>3 DEF SlotKept, Holds, Holding
  <2> QED BY <1>1, <1>2, <2>1, SlotsStay DEF TimeoutTypeOK
<1> QED BY <1>4, <1>5, <1>6, <1>7, <1>8 DEF IInv

\* It stores the state, which nothing but later checks depends on.
LEMMA CancelStoreKeeps ==
  ASSUME IInv, NEW c \in Cores, CancelStore(c)
  PROVE  IInv'
<1>1. TimeoutTypeOK /\ CallOK(c) BY DEF IInv, CallInv
<1>2. PICK t : t = call[c].t OBVIOUS
<1>3. t \in Tmos BY <1>1, <1>2 DEF CallOK, CancelStore, TimeoutTypeOK, CallType
<1>4. /\ now' = now /\ timer' = timer /\ hdr' = hdr /\ place' = place
      /\ idle' = idle /\ cycle' = cycle /\ sets' = sets
      /\ \A u \in Tmos : /\ tmo'[u].alloc = tmo[u].alloc /\ tmo'[u].kind = tmo[u].kind
                         /\ tmo'[u].last = tmo[u].last /\ tmo'[u].skips = tmo[u].skips
  BY <1>1 DEF TimeoutTypeOK, TmoType, CancelStore
<1>5. /\ call[c].pc = "cancelStore" /\ call'[c].pc = "cancelOdp" /\ call'[c].t = call[c].t
      /\ \A d \in Cores \ {c} : call'[d] = call[d]
  BY <1>1 DEF TimeoutTypeOK, CallType, CancelStore
<1>6. TimeoutTypeOK'
  <2>1. tmo \in [Tmos -> TmoType] /\ call \in [Cores -> CallType] BY <1>1 DEF TimeoutTypeOK
  <2>2. tmo' \in [Tmos -> TmoType] BY <1>2, <1>3, <2>1, StateType DEF CancelStore
  <2>3. call' \in [Cores -> CallType] BY <2>1 DEF CancelStore, CallType, PCs
  <2> QED BY <1>1, <1>4, <2>2, <2>3 DEF TimeoutTypeOK
<1>7. CallInv'
  <2> SUFFICES ASSUME NEW d \in Cores PROVE CallOK(d)' BY DEF CallInv
  <2>1. CASE d = c BY <1>1, <1>2, <1>3, <1>4, <1>5, <2>1 DEF CallOK, Holding
  <2>2. CASE d # c
    <3>1. CallOK(d) /\ (call[d].pc # "none" => call[d].t \in Tmos)
      BY <1>1 DEF IInv, CallInv, CallOK, TimeoutTypeOK, CallType
    <3>2. CallKept(d) BY <1>4, <1>5, <2>2, <3>1 DEF CallKept, CallOK, Holding
    <3> QED BY <3>1, <3>2, CallSame
  <2> QED BY <2>1, <2>2
<1>8. EventInv' BY <1>4, <1>5, EventsStay DEF EventsKept, Holding
<1>9. TimerInv' BY <1>4 DEF IInv, TimerInv, TimerOK
<1>10. SlotInv'
  <2>1. \A u \in Tmos : SlotKept(u) BY <1>4, <1>5 DEF SlotKept, Holds, Holding
  <2> QED BY <1>1, <1>4, <2>1, SlotsStay DEF TimeoutTypeOK
<1> QED BY <1>6, <1>7, <1>8, <1>9, <1>10 DEF IInv

\* The cancel of a timer that has expired, or is not yet started, changes nothing.
LEMMA CancelLateKeeps ==
  ASSUME IInv, NEW c \in Cores, call[c].pc = "cancelOdp", call' = Returned(c),
         UNCHANGED <<now, tmo, timer, hdr, place, idle, cycle, sets>>
  PROVE  IInv'
<1>1. TimeoutTypeOK BY DEF IInv
<1>2. call'[c].pc = "none" /\ call'[c].t = NoTmo /\ \A d \in Cores \ {c} : call'[d] = call[d]
  BY <1>1 DEF TimeoutTypeOK, Returned, NoCall
<1>3. TimeoutTypeOK'
  <2>1. call' \in [Cores -> CallType] BY <1>1, ReturnedType DEF TimeoutTypeOK
  <2> QED BY <1>1, <2>1 DEF TimeoutTypeOK
<1>4. CallInv'
  <2> SUFFICES ASSUME NEW d \in Cores PROVE CallOK(d)' BY DEF CallInv
  <2>1. CASE d = c BY <1>2, <2>1 DEF CallOK, Holding
  <2>2. CASE d # c
    <3>1. CallOK(d) BY DEF IInv, CallInv
    <3>2. CallKept(d) BY <1>2, <2>2, <3>1 DEF CallKept, CallOK, Holding
    <3> QED BY <3>1, <3>2, CallSame
  <2> QED BY <2>1, <2>2
<1>5. EventInv' BY <1>2, EventsStay DEF EventsKept, Holding
<1>6. TimerInv' BY DEF IInv, TimerInv, TimerOK
<1>7. SlotInv'
  <2>1. \A u \in Tmos : SlotKept(u) BY <1>2, TmoAssumption DEF SlotKept, Holds, Holding
  <2> QED BY <1>1, <2>1, SlotsStay DEF TimeoutTypeOK
<1> QED BY <1>3, <1>4, <1>5, <1>6, <1>7 DEF IInv

\* A timer that is armed gives its event back, the only one of the timeout.
LEMMA CancelInTimeKeeps ==
  ASSUME IInv, NEW c \in Cores, CancelOdp(c), timer[call[c].t].armed
  PROVE  IInv'
<1>1. TimeoutTypeOK BY DEF IInv
<1>2. PICK t, e : t = call[c].t /\ e = timer[call[c].t].e OBVIOUS
<1>3. /\ t \in Tmos /\ tmo[t].kind # "ring" /\ tmo[t].alloc /\ ~idle[t]
      /\ e \in Events /\ place[e] = "timer" /\ hdr[e].tmo = t
      /\ timer[t].pend = 0 /\ ~timer[t].ending
  BY <1>1, <1>2 DEF IInv, CallInv, CallOK, CancelOdp, TimeoutTypeOK, CallType, TimerInv, TimerOK
<1>4. \A f \in Events : Live(f) /\ hdr[f].tmo = t => f = e BY <1>3 DEF IInv, EventInv, EventOK, Live
<1>5. \A d \in Cores : call[d].pc \in Holding => call[d].t # t /\ call[d].e # e
  BY <1>3, <1>4 DEF IInv, CallInv, CallOK, Live
<1>6. /\ place'[e] = "user" /\ hdr'[e] = NoTag
      /\ \A f \in Events \ {e} : place'[f] = place[f] /\ hdr'[f] = hdr[f]
      /\ ~timer'[t].armed /\ timer'[t].pend = timer[t].pend /\ timer'[t].ending = timer[t].ending
      /\ idle'[t] /\ \A u \in Tmos \ {t} : timer'[u] = timer[u] /\ idle'[u] = idle[u]
      /\ now' = now /\ tmo' = tmo /\ cycle' = cycle /\ sets' = sets
  BY <1>1, <1>2, <1>3 DEF TimeoutTypeOK, TimerType, CancelOdp, Untag
<1>7. /\ call'[c].pc = "none" /\ call'[c].t = NoTmo /\ \A d \in Cores \ {c} : call'[d] = call[d]
      /\ call[c].pc = "cancelOdp"
  BY <1>1 DEF TimeoutTypeOK, CancelOdp, Returned, NoCall
<1>8. TimeoutTypeOK'
  <2>1. call' \in [Cores -> CallType] BY <1>1, ReturnedType DEF CancelOdp, TimeoutTypeOK
  <2>2. hdr' \in [Events -> TagType] BY <1>1, <1>2, <1>3, TagsType DEF CancelOdp, TimeoutTypeOK
  <2>3. timer' \in [Tmos -> TimerType]
    <3>1. timer \in [Tmos -> TimerType] BY <1>1 DEF TimeoutTypeOK
    <3>2. timer' = [timer EXCEPT ![t].armed = FALSE] BY <1>2 DEF CancelOdp
    <3> QED BY ZenonT(40), <3>1, <3>2 DEF TimerType
  <2>4. place' \in [Events -> {"user", "call", "timer", "queue", "rcvd", "old"}]
        /\ idle' \in [Tmos -> BOOLEAN]
    BY <1>1, <1>2 DEF CancelOdp, TimeoutTypeOK
  <2> QED BY <1>1, <1>6, <2>1, <2>2, <2>3, <2>4 DEF TimeoutTypeOK
<1>9. CallInv'
  <2> SUFFICES ASSUME NEW d \in Cores PROVE CallOK(d)' BY DEF CallInv
  <2>1. CASE d = c BY <1>7, <2>1 DEF CallOK, Holding
  <2>2. CASE d # c
    <3>1. CallOK(d) /\ (call[d].pc # "none" => call[d].t \in Tmos)
      BY <1>1 DEF IInv, CallInv, CallOK, TimeoutTypeOK, CallType
    <3>2. call[d].pc \in Holding => call[d].e \in Events \ {e} BY <1>5, <3>1 DEF CallOK
    <3>3. call[d].pc = "ringStart" => call[d].t # t BY <1>3, <3>1 DEF CallOK
    <3>4. call[d].pc = "deleteFree" => idle'[call[d].t] BY <1>6, <3>1 DEF CallOK
    <3>5. CallKept(d)
      BY <1>6, <1>7, <2>2, <3>1, <3>2, <3>3, <3>4, TmoAssumption DEF CallKept, CallOK, Holding
    <3> QED BY <3>1, <3>5, CallSame
  <2> QED BY <2>1, <2>2
<1>10. EventInv'
  <2> SUFFICES ASSUME NEW f \in Events PROVE EventOK(f)' BY DEF EventInv
  <2>1. CASE f = e BY <1>6, <2>1 DEF EventOK, Live
  <2>2. CASE f # e
    <3>1. EventOK(f) /\ place'[f] = place[f] /\ hdr'[f] = hdr[f] BY <1>6, <2>2 DEF IInv, EventInv
    <3>2. \A g \in Events : Live(g)' => Live(g) /\ hdr'[g] = hdr[g] BY <1>6 DEF Live
    <3>3. Live(f) => hdr[f].tmo \in Tmos \ {t} BY <1>4, <2>2, <3>1 DEF EventOK, Live
    <3>4. place[f] = "call" => \E d \in Cores : call'[d].pc \in Holding /\ call'[d].e = f
      <4>1. \A d \in Cores : call[d].pc \in Holding => call'[d] = call[d] BY <1>7 DEF Holding
      <4> QED BY <3>1, <4>1 DEF EventOK
    <3>5. Live(f)' <=> Live(f) BY <3>1 DEF Live
    <3>6. place[f] = "timer" => Live(f) BY DEF Live
    <3> QED BY <1>6, <3>1, <3>2, <3>3, <3>4, <3>5, <3>6 DEF EventOK
  <2> QED BY <2>1, <2>2
<1>11. TimerInv'
  <2> SUFFICES ASSUME NEW u \in Tmos PROVE TimerOK(u)' BY DEF TimerInv
  <2>1. TimerOK(u) BY DEF IInv, TimerInv
  <2>2. CASE u = t BY <1>3, <1>6, <2>1, <2>2 DEF TimerOK
  <2>3. CASE u # t BY <1>3, <1>6, <2>1, <2>3 DEF TimerOK
  <2> QED BY <2>2, <2>3
<1>12. SlotInv'
  <2>1. \A u \in Tmos \ {t} : SlotKept(u)
    BY <1>3, <1>6, <1>7, TmoAssumption DEF SlotKept, Holds, Holding, NoTag
  <2> QED BY <1>1, <1>6, <2>1, SlotsStay DEF TimeoutTypeOK
<1> QED BY <1>8, <1>9, <1>10, <1>11, <1>12 DEF IInv

\* Whichever of cancel and expiry comes first.
LEMMA CancelOdpKeeps ==
  ASSUME IInv, NEW c \in Cores, CancelOdp(c)
  PROVE  IInv'
<1>1. CASE timer[call[c].t].armed BY <1>1, CancelInTimeKeeps
<1>2. CASE ~timer[call[c].t].armed
  <2>1. call[c].pc = "cancelOdp" /\ call' = Returned(c)
        /\ UNCHANGED <<now, tmo, timer, hdr, place, idle, cycle, sets>>
    BY <1>2 DEF CancelOdp
  <2> QED BY <2>1, CancelLateKeeps
<1> QED BY <1>1, <1>2

\* The calls on a ring that no call starts or deletes, when its timer changes.
LEMMA RingCallsStay ==
  ASSUME IInv, NEW t \in Tmos, OnRing(t),
         \A d \in Cores : call[d].t = t => call[d].pc # "ringStart" /\ (call[d].pc = "deleteFree" => idle'[t]),
         \A d \in Cores : call'[d] = call[d] \/ (call'[d].pc = "none" /\ call'[d].t = NoTmo)
  PROVE  CallInv'
<1> SUFFICES ASSUME NEW d \in Cores PROVE CallOK(d)' BY DEF CallInv
<1>1. CASE call'[d].pc = "none" /\ call'[d].t = NoTmo BY <1>1 DEF CallOK, Holding
<1>2. CASE call'[d] = call[d]
  <2>1. CallOK(d) /\ (call[d].pc # "none" => call[d].t \in Tmos)
    BY DEF IInv, CallInv, CallOK, TimeoutTypeOK, CallType
  <2>2. \A b \in Cores : call'[b].t \in Tmos => call'[b] = call[b] BY TmoAssumption
  <2>3. call[d].pc = "ringStart" => timer'[call[d].t] = timer[call[d].t] /\ idle'[call[d].t] = idle[call[d].t]
    BY <2>1 DEF OnRing
  <2>4. call[d].pc = "deleteFree" => idle'[call[d].t] BY <2>1 DEF OnRing, CallOK
  <2>5. \A b \in Cores : call'[b].pc \in Holding => call'[b] = call[b] BY DEF Holding
  <2>6. CallKept(d)
    BY <1>2, <2>1, <2>2, <2>3, <2>4, <2>5 DEF CallKept, CallOK, OnRing, Holding
  <2> QED BY <2>1, <2>6, CallSame
<1> QED BY <1>1, <1>2

\* A ring that is cancelled has a last event to come.
LEMMA CancelRingKeeps ==
  ASSUME IInv, NEW c \in Cores, CancelRing(c)
  PROVE  IInv'
<1>1. TimeoutTypeOK BY DEF IInv
<1>2. PICK t : t = call[c].t OBVIOUS
<1>3. /\ t \in Tmos /\ tmo[t].kind = "ring" /\ tmo[t].alloc /\ call[c].pc = "cancelOdp" /\ TimerOK(t)
      /\ \A d \in Cores : call[d].t = t => call[d].pc # "ringStart" /\ (call[d].pc = "deleteFree" => idle[t])
  BY <1>1, <1>2 DEF IInv, CallInv, CallOK, TimeoutTypeOK, CallType, CancelRing, TimerInv
<1>4. /\ now' = now /\ tmo' = tmo /\ hdr' = hdr /\ place' = place /\ idle' = idle
      /\ cycle' = cycle /\ sets' = sets
  BY DEF CancelRing
<1>5. call'[c].pc = "none" /\ call'[c].t = NoTmo /\ \A d \in Cores \ {c} : call'[d] = call[d]
  BY <1>1 DEF TimeoutTypeOK, CancelRing, Returned, NoCall
<1>6. timer' \in [Tmos -> TimerType] /\ TimerOK(t)' /\ \A u \in Tmos \ {t} : timer'[u] = timer[u]
  <2>1. timer \in [Tmos -> TimerType] BY <1>1 DEF TimeoutTypeOK
  <2>2. CASE timer' = timer BY <1>3, <1>4, <2>1, <2>2 DEF TimerOK
  <2>3. CASE timer[t].armed /\ timer' = [timer EXCEPT ![t].armed = FALSE, ![t].ending = TRUE]
    <3>1. timer' \in [Tmos -> TimerType] BY <2>1, <2>3 DEF TimerType
    <3>2. ~timer'[t].armed BY <1>3, <2>1, <2>3 DEF TimerType
    <3> QED BY <1>3, <1>4, <2>1, <2>3, <3>1, <3>2 DEF TimerOK
  <2> QED BY <1>2, <2>2, <2>3 DEF CancelRing
<1>7. TimeoutTypeOK'
  <2>1. call' \in [Cores -> CallType] BY <1>1, ReturnedType DEF CancelRing, TimeoutTypeOK
  <2> QED BY <1>1, <1>4, <1>6, <2>1 DEF TimeoutTypeOK
<1>8. OnRing(t) BY <1>3, <1>4, <1>5, <1>6 DEF OnRing, Holding
<1>9. CallInv'
  <2>1. \A d \in Cores : call'[d] = call[d] \/ (call'[d].pc = "none" /\ call'[d].t = NoTmo) BY <1>5
  <2> QED BY <1>3, <1>4, <1>8, <2>1, RingCallsStay
<1> QED BY <1>3, <1>7, <1>8, <1>9, RingKeeps

\* The ack of the last event of a ring finds it off.
LEMMA RingAckKeeps ==
  ASSUME IInv, NEW c \in Cores, NEW t \in Tmos, RingAck(c, t)
  PROVE  IInv'
<1>1. TimeoutTypeOK /\ TimerOK(t) BY DEF IInv, TimerInv
<1>2. /\ tmo[t].kind = "ring" /\ timer[t].pend > 0 /\ now' = now /\ tmo' = tmo /\ hdr' = hdr
      /\ place' = place /\ call' = call /\ cycle' = cycle /\ sets' = sets
  BY DEF RingAck
<1>3. timer[t].pend \in 0 .. MaxPend /\ ~idle[t] /\ MaxPend \in Nat
  BY <1>1, <1>2, TmoAssumption DEF TimeoutTypeOK, TimerType, TimerOK
<1>4. /\ timer'[t].pend = timer[t].pend - 1 /\ timer'[t].armed = timer[t].armed
      /\ timer'[t].ending <=> timer[t].ending /\ ~LastRingAck(t)
      /\ \A u \in Tmos \ {t} : timer'[u] = timer[u] /\ idle'[u] = idle[u]
      /\ (idle'[t] <=> LastRingAck(t)) /\ idle' \in [Tmos -> BOOLEAN]
  <2>1. timer \in [Tmos -> TimerType] /\ idle \in [Tmos -> BOOLEAN] BY <1>1 DEF TimeoutTypeOK
  <2>2. CASE LastRingAck(t) BY <1>3, <2>1, <2>2 DEF RingAck, TimerType
  <2>3. CASE ~LastRingAck(t) BY <1>3, <2>1, <2>3 DEF RingAck, TimerType, LastRingAck
  <2> QED BY <2>2, <2>3
<1>5. timer' \in [Tmos -> TimerType]
  <2>1. timer \in [Tmos -> TimerType] BY <1>1 DEF TimeoutTypeOK
  <2>2. timer[t].pend - 1 \in 0 .. MaxPend BY <1>2, <1>3
  <2>3. (timer[t].ending /\ ~LastRingAck(t)) \in BOOLEAN OBVIOUS
  <2>4. timer' = [timer EXCEPT ![t].pend = @ - 1, ![t].ending = @ /\ ~LastRingAck(t)] BY DEF RingAck
  <2> QED BY ZenonT(40), <2>1, <2>2, <2>3, <2>4 DEF TimerType
<1>6. TimerOK(t)'
  <2>1. CASE LastRingAck(t)
    <3>1. ~timer'[t].armed /\ timer'[t].pend = 0 /\ ~timer'[t].ending
      BY <1>1, <1>4, <2>1 DEF TimerOK, LastRingAck
    <3> QED BY <1>2, <1>4, <2>1, <3>1 DEF TimerOK
  <2>2. CASE ~LastRingAck(t) BY <1>1, <1>2, <1>3, <1>4, <2>2 DEF TimerOK
  <2> QED BY <2>1, <2>2
<1>7. TimeoutTypeOK' BY <1>1, <1>2, <1>4, <1>5 DEF TimeoutTypeOK
<1>8. OnRing(t) BY <1>2, <1>4, <1>6 DEF OnRing
<1>9. CallInv'
  <2>1. \A d \in Cores : call[d].t = t => call[d].pc # "ringStart" /\ (call[d].pc = "deleteFree" => idle'[t])
    BY <1>2, <1>3 DEF IInv, CallInv, CallOK
  <2> QED BY <1>2, <1>8, <2>1, RingCallsStay
<1> QED BY <1>7, <1>8, <1>9, RingKeeps

\* A ring sends an event.
LEMMA RingExpireKeeps ==
  ASSUME IInv, NEW t \in Tmos, RingExpire(t)
  PROVE  IInv'
<1>1. TimeoutTypeOK /\ TimerOK(t) BY DEF IInv, TimerInv
<1>2. /\ tmo[t].kind = "ring" /\ ~idle[t] /\ now' = now /\ tmo' = tmo /\ hdr' = hdr /\ idle' = idle
      /\ place' = place /\ call' = call /\ cycle' = cycle /\ sets' = sets
  BY <1>1 DEF RingExpire, TimerOK
<1>3. /\ timer'[t].pend = timer[t].pend + 1 /\ timer'[t].armed = timer[t].armed
      /\ timer'[t].ending = timer[t].ending
      /\ \A u \in Tmos \ {t} : timer'[u] = timer[u]
      /\ timer' \in [Tmos -> TimerType]
  <2>1. timer \in [Tmos -> TimerType] BY <1>1 DEF TimeoutTypeOK
  <2>2. timer[t].pend \in 0 .. MaxPend BY <2>1 DEF TimerType
  <2>3. timer[t].pend + 1 \in 0 .. MaxPend BY <2>2, TmoAssumption DEF RingExpire
  <2>4. timer' = [timer EXCEPT ![t].pend = @ + 1] BY DEF RingExpire
  <2> QED BY <2>1, <2>3, <2>4 DEF TimerType
<1>4. TimerOK(t)' BY <1>1, <1>2, <1>3 DEF TimerOK
<1>5. TimeoutTypeOK' BY <1>1, <1>2, <1>3 DEF TimeoutTypeOK
<1>6. OnRing(t) BY <1>2, <1>3, <1>4 DEF OnRing
<1>7. CallInv'
  <2>1. \A d \in Cores : call[d].t = t => call[d].pc # "ringStart" /\ (call[d].pc = "deleteFree" => idle'[t])
    <3>1. timer[t].armed \/ timer[t].ending BY DEF RingExpire
    <3> QED BY <1>2, <3>1 DEF IInv, CallInv, CallOK
  <2> QED BY <1>2, <1>6, <2>1, RingCallsStay
<1> QED BY <1>5, <1>6, <1>7, RingKeeps

-----------------------------------------------------------------------------
(* Time, expiry and reception *)

\* Time passes: slots do not move back into the future.
LEMMA TickKeeps == ASSUME IInv, Tick PROVE IInv'
<1>1. TimeoutTypeOK BY DEF IInv
<1>2. /\ tmo' = tmo /\ timer' = timer /\ hdr' = hdr /\ place' = place /\ call' = call /\ idle' = idle
      /\ cycle' = cycle /\ sets' = sets /\ now' \in 0 .. MaxTick /\ now' >= now
  BY <1>1, TmoAssumption DEF Tick, TimeoutTypeOK
<1>3. TimeoutTypeOK' BY <1>1, <1>2 DEF TimeoutTypeOK
<1>4. CallInv' BY <1>2 DEF IInv, CallInv, CallOK
<1>5. EventInv' BY <1>2, EventsStay DEF EventsKept
<1>6. TimerInv' BY <1>2 DEF IInv, TimerInv, TimerOK
<1>7. SlotInv'
  <2>1. \A u \in Tmos : SlotKept(u) BY <1>2 DEF SlotKept, Holds
  <2> QED BY <1>2, <2>1, SlotsStay
<1> QED BY <1>3, <1>4, <1>5, <1>6, <1>7 DEF IInv

\* A step that only moves the event e: the other events, and the calls, which do
\* not have it, stay as they are.
Moves(e) ==
  /\ call' = call /\ tmo' = tmo /\ now' = now /\ cycle' = cycle
  /\ \A f \in Events \ {e} : place'[f] = place[f] /\ hdr'[f] = hdr[f]
  /\ place[e] # "call" /\ (Live(e)' => Live(e) /\ hdr'[e] = hdr[e])
  /\ \A u \in Tmos : \/ timer'[u] = timer[u] /\ idle'[u] = idle[u]
                     \/ Live(e) /\ u = hdr[e].tmo

\* The calls in progress do not depend on the event.
LEMMA MoveKeepsCalls == ASSUME IInv, NEW e \in Events, Moves(e) PROVE CallInv'
<1> SUFFICES ASSUME NEW d \in Cores PROVE CallOK(d)' BY DEF CallInv
<1>1. CallOK(d) /\ (call[d].pc # "none" => call[d].t \in Tmos)
  BY DEF IInv, CallInv, CallOK, TimeoutTypeOK, CallType
<1>2. call[d].pc \in Holding => call[d].e \in Events \ {e} BY <1>1 DEF CallOK, Moves
<1>3. Live(e) => tmo[hdr[e].tmo].kind # "ring" /\ ~idle[hdr[e].tmo]
  BY DEF IInv, EventInv, EventOK
<1>4. call[d].pc \in {"ringStart", "deleteFree"} =>
        timer'[call[d].t] = timer[call[d].t] /\ idle'[call[d].t] = idle[call[d].t]
  BY <1>1, <1>3 DEF Moves, CallOK
<1>5. CallKept(d) BY <1>1, <1>2, <1>4 DEF CallKept, CallOK, Moves
<1> QED BY <1>1, <1>5, CallSame

\* The other events belong to other timeouts, or are not live.
LEMMA MoveKeepsEvents ==
  ASSUME IInv, NEW e \in Events, Moves(e), EventOK(e)'
  PROVE  EventInv'
<1> SUFFICES ASSUME NEW f \in Events, f # e PROVE EventOK(f)' BY DEF EventInv
<1>1. EventOK(f) /\ place'[f] = place[f] /\ hdr'[f] = hdr[f] BY DEF IInv, EventInv, Moves
<1>2. \A g \in Events : Live(g)' => Live(g) /\ hdr'[g] = hdr[g] BY DEF Live, Moves
<1>3. (Live(f)' <=> Live(f)) /\ (place[f] = "timer" => Live(f)) BY <1>1 DEF Live
<1>4. Live(f) => hdr[f].tmo \in Tmos /\ ~(Live(e) /\ hdr[f].tmo = hdr[e].tmo)
  BY <1>1 DEF EventOK, Live
<1>5. Live(f) => timer'[hdr[f].tmo] = timer[hdr[f].tmo] /\ idle'[hdr[f].tmo] = idle[hdr[f].tmo]
  BY <1>4 DEF Moves
<1> QED BY <1>1, <1>2, <1>3, <1>5 DEF EventOK, Moves

\* The timer of another timeout has another event.
LEMMA MoveKeepsTimers ==
  ASSUME IInv, NEW e \in Events, Moves(e), \A t \in Tmos : Live(e) /\ t = hdr[e].tmo => TimerOK(t)',
         place[e] = "timer" => Live(e)
  PROVE  TimerInv'
<1> SUFFICES ASSUME NEW u \in Tmos, ~(Live(e) /\ u = hdr[e].tmo) PROVE TimerOK(u)' BY DEF TimerInv
<1>1. TimerOK(u) /\ timer'[u] = timer[u] /\ idle'[u] = idle[u] BY DEF IInv, TimerInv, Moves
<1>2. tmo[u].kind # "ring" /\ timer[u].armed => timer[u].e \in Events \ {e}
  BY <1>1 DEF TimerOK, Live
<1> QED BY <1>1, <1>2 DEF TimerOK, Moves

\* The slot that expires is past.
LEMMA ExpireKeeps ==
  ASSUME IInv, NEW t \in Tmos, Expire(t)
  PROVE  IInv'
<1>1. TimeoutTypeOK /\ TimerOK(t) BY DEF IInv, TimerInv
<1>2. PICK e : e = timer[t].e OBVIOUS
<1>3. /\ tmo[t].kind # "ring" /\ timer[t].armed /\ timer[t].tick <= now /\ ~idle[t]
      /\ e \in Events /\ place[e] = "timer" /\ hdr[e].tmo = t /\ Live(e)
  BY <1>1, <1>2 DEF Expire, TimerOK, Live
<1>4. /\ place'[e] = "queue" /\ \A f \in Events \ {e} : place'[f] = place[f]
      /\ ~timer'[t].armed /\ timer'[t].pend = timer[t].pend /\ timer'[t].ending = timer[t].ending
      /\ \A u \in Tmos \ {t} : timer'[u] = timer[u]
      /\ now' = now /\ tmo' = tmo /\ hdr' = hdr /\ call' = call /\ idle' = idle
      /\ cycle' = cycle /\ sets' = sets
  BY <1>1, <1>2, <1>3 DEF TimeoutTypeOK, TimerType, Expire
<1>5. TimeoutTypeOK'
  <2>1. timer \in [Tmos -> TimerType] BY <1>1 DEF TimeoutTypeOK
  <2>2. timer' \in [Tmos -> TimerType] BY <2>1 DEF Expire, TimerType
  <2>3. place' \in [Events -> {"user", "call", "timer", "queue", "rcvd", "old"}]
    BY <1>1 DEF Expire, TimeoutTypeOK
  <2> QED BY <1>1, <1>4, <2>2, <2>3 DEF TimeoutTypeOK
<1>6. Moves(e) BY <1>3, <1>4 DEF Moves
<1>7. CallInv' BY <1>3, <1>6, MoveKeepsCalls
<1>8. EventInv'
  <2>1. EventOK(e) BY <1>3 DEF IInv, EventInv
  <2>2. \A g \in Events : Live(g)' => Live(g) BY <1>3, <1>4 DEF Live
  <2>3. EventOK(e)' BY <1>3, <1>4, <2>1, <2>2 DEF EventOK
  <2> QED BY <1>3, <1>6, <2>3, MoveKeepsEvents
<1>9. TimerInv'
  <2>1. TimerOK(t)' BY <1>1, <1>3, <1>4 DEF TimerOK
  <2> QED BY <1>3, <1>6, <2>1, MoveKeepsTimers
<1>10. SlotInv'
  <2> SUFFICES ASSUME NEW u \in Tmos PROVE SlotOK(u)' BY DEF SlotInv
  <2>1. SlotOK(u) BY DEF IInv, SlotInv
  <2>2. CASE u = t
    <3>1. tmo[t].kind \in {"skip", "noskip"} => timer[t].tick = tmo[t].last
      BY <1>3, <2>1, <2>2 DEF SlotOK
    <3>2. tmo[t].kind \in {"skip", "noskip"} => tmo[t].last < now + Near
      BY <1>1, <1>3, <3>1, TmoAssumption DEF TimeoutTypeOK, TmoType, TimerType
    <3>3. /\ Skipped(t)' = Skipped(t) /\ \A n : Slot(t, n)' = Slot(t, n)
          /\ \A P : InCall(t, P)' = InCall(t, P)
      BY <1>4 DEF Skipped, Slot, InCall
    <3> QED BY <1>4, <2>1, <2>2, <3>2, <3>3 DEF SlotOK
  <2>3. CASE u # t
    <3>1. SlotKept(u) BY <1>3, <1>4, <2>3 DEF SlotKept, Holds
    <3> QED BY <1>1, <1>4, <2>1, <3>1, SlotSame DEF TimeoutTypeOK
  <2> QED BY <2>2, <2>3
<1> QED BY <1>5, <1>7, <1>8, <1>9, <1>10 DEF IInv

\* A oneshot timeout is inactive when its event has come.
LEMMA ReceiveKeeps ==
  ASSUME IInv, NEW e \in Events, Receive(e)
  PROVE  IInv'
<1>1. TimeoutTypeOK /\ EventOK(e) BY DEF IInv, EventInv
<1>2. PICK t : t = hdr[e].tmo OBVIOUS
<1>3. /\ place[e] = "queue" /\ Live(e) /\ t \in Tmos /\ tmo[t].kind # "ring" /\ ~idle[t]
      /\ hdr[e].type \in {"ONESHOT", "PERIODIC"}
      /\ hdr[e].type = "ONESHOT" <=> tmo[t].kind = "oneshot"
      /\ \A f \in Events : Live(f) /\ hdr[f].tmo = t => f = e
  BY <1>1, <1>2 DEF Receive, EventOK, Live
<1>4. /\ place'[e] = "rcvd" /\ \A f \in Events \ {e} : place'[f] = place[f]
      /\ \A u \in Tmos \ {t} : idle'[u] = idle[u]
      /\ idle'[t] <=> hdr[e].type = "ONESHOT"
      /\ now' = now /\ tmo' = tmo /\ timer' = timer /\ hdr' = hdr /\ call' = call
      /\ cycle' = cycle /\ sets' = sets
  BY <1>1, <1>2, <1>3 DEF TimeoutTypeOK, Receive
<1>5. ~timer[t].armed /\ timer[t].pend = 0 /\ ~timer[t].ending
  BY <1>3 DEF IInv, TimerInv, TimerOK, Live
<1>6. TimeoutTypeOK'
  <2>1. place' \in [Events -> {"user", "call", "timer", "queue", "rcvd", "old"}]
        /\ idle' \in [Tmos -> BOOLEAN]
    BY <1>1 DEF Receive, TimeoutTypeOK
  <2> QED BY <1>1, <1>4, <2>1 DEF TimeoutTypeOK
<1>7. Moves(e) BY <1>2, <1>3, <1>4 DEF Moves
<1>8. CallInv' BY <1>7, MoveKeepsCalls
<1>9. EventInv'
  <2>1. \A g \in Events : Live(g)' => Live(g) BY <1>3, <1>4 DEF Live
  <2>2. EventOK(e)' BY <1>1, <1>2, <1>3, <1>4, <2>1 DEF EventOK, Live
  <2> QED BY <1>7, <2>2, MoveKeepsEvents
<1>10. TimerInv'
  <2>1. TimerOK(t)' BY <1>3, <1>4, <1>5 DEF IInv, TimerInv, TimerOK
  <2> QED BY <1>2, <1>3, <1>7, <2>1, MoveKeepsTimers
<1>11. SlotInv'
  <2> SUFFICES ASSUME NEW u \in Tmos PROVE SlotOK(u)' BY DEF SlotInv
  <2>1. SlotOK(u) BY DEF IInv, SlotInv
  <2>2. CASE idle'[u] BY <2>2 DEF SlotOK
  <2>3. CASE ~idle'[u]
    <3>1. idle'[u] = idle[u] BY <1>1, <1>3, <1>4, <1>6, <2>3 DEF TimeoutTypeOK
    <3>2. SlotKept(u) BY <1>3, <1>4, <3>1 DEF SlotKept, Holds
    <3> QED BY <1>1, <1>4, <2>1, <3>2, SlotSame DEF TimeoutTypeOK
  <2> QED BY <2>2, <2>3
<1> QED BY <1>6, <1>8, <1>9, <1>10, <1>11 DEF IInv

\* An event that is done with belongs to no timeout.
LEMMA ResetKeeps ==
  ASSUME IInv, NEW e \in Events, TmoTypeReset(e)
  PROVE  IInv'
<1>1. TimeoutTypeOK BY DEF IInv
<1>2. /\ place[e] = "old" \/ (place[e] = "rcvd" /\ hdr[e].type = "ONESHOT")
      /\ place'[e] = "user" /\ hdr'[e] = NoTag
      /\ \A f \in Events \ {e} : place'[f] = place[f] /\ hdr'[f] = hdr[f]
      /\ now' = now /\ tmo' = tmo /\ timer' = timer /\ call' = call /\ idle' = idle
      /\ cycle' = cycle /\ sets' = sets
  BY <1>1 DEF TimeoutTypeOK, TmoTypeReset, Untag
<1>3. ~Live(e) /\ ~Live(e)' BY <1>2 DEF Live
<1>4. TimeoutTypeOK'
  <2>1. hdr' \in [Events -> TagType] BY <1>1, TagsType DEF TmoTypeReset, TimeoutTypeOK
  <2>2. place' \in [Events -> {"user", "call", "timer", "queue", "rcvd", "old"}]
    BY <1>1 DEF TmoTypeReset, TimeoutTypeOK
  <2> QED BY <1>1, <1>2, <2>1, <2>2 DEF TimeoutTypeOK
<1>5. Moves(e) BY <1>2, <1>3 DEF Moves
<1>6. CallInv' BY <1>5, MoveKeepsCalls
<1>7. EventInv'
  <2>1. EventOK(e)' BY <1>2, <1>3 DEF EventOK
  <2> QED BY <1>5, <2>1, MoveKeepsEvents
<1>8. TimerInv' BY <1>2, <1>3, <1>5, MoveKeepsTimers
<1>9. SlotInv'
  <2>1. \A u \in Tmos : SlotKept(u) BY <1>2, TmoAssumption DEF SlotKept, Holds, NoTag
  <2> QED BY <1>1, <1>2, <2>1, SlotsStay DEF TimeoutTypeOK
<1> QED BY <1>4, <1>6, <1>7, <1>8, <1>9 DEF IInv

-----------------------------------------------------------------------------
(* The specification *)

\* The set functions of the code, as SetAt.
LEMMA SetIsSetAt ==
  ASSUME IInv, NEW c \in Cores, NEW t \in Tmos, NEW e \in Events
  PROVE  /\ \A tick \in {now, now + Near} : SetAbs(c, t, e, tick) => SetAt(c, t, e, "ONESHOT", tick)
         /\ SetRel(c, t, e, Near) => SetAt(c, t, e, "ONESHOT", -Near)
         /\ \A start \in {0, now + Near} : SetPeriodic(c, t, e, start) =>
              SetAt(c, t, e, "PERIODIC", IF start = 0 THEN now + Period ELSE start)
<1>1. now \in Nat /\ Near \in Nat /\ Period \in Nat BY TmoAssumption DEF IInv, TimeoutTypeOK
<1>2. tmo[t].kind \in AllKinds BY DEF IInv, TimeoutTypeOK, TmoType
<1>3. ASSUME NEW tick \in {now, now + Near}, SetAbs(c, t, e, tick)
      PROVE  SetAt(c, t, e, "ONESHOT", tick)
  BY <1>1, <1>3 DEF SetAbs, SetAt, Periodic
<1>4. SetRel(c, t, e, Near) => SetAt(c, t, e, "ONESHOT", -Near)
  BY <1>1 DEF SetRel, SetAt, Periodic
<1>5. ASSUME NEW start \in {0, now + Near}, SetPeriodic(c, t, e, start)
      PROVE  SetAt(c, t, e, "PERIODIC", IF start = 0 THEN now + Period ELSE start)
  <2>1. PICK first : first = IF start = 0 THEN now + Period ELSE start OBVIOUS
  <2>2. first \in Nat BY <1>1, <2>1
  <2>3. /\ MaySet(c, t) /\ tmo[t].kind \in {"skip", "noskip"} /\ place[e] = "user"
        /\ tmo' = [tmo EXCEPT ![t].state = "ACTIVE", ![t].last = first]
        /\ Arm(c, t, e, "PERIODIC", first)
    BY <1>5, <2>1 DEF SetPeriodic
  <2>4. SetAt(c, t, e, "PERIODIC", first) BY <2>2, <2>3 DEF SetAt
  <2> QED BY <2>1, <2>4
<1> QED BY <1>3, <1>4, <1>5

\* At the start nothing is allocated, armed or under way.
LEMMA InitOK == ASSUME TimeoutInit PROVE IInv
<1>1. TimeoutTypeOK
  <2>1. /\ FreeTmo \in TmoType /\ NoTag \in TagType
        /\ [first |-> 0, fired |-> 0, skips |-> 0] \in CycleType
    BY DEF FreeTmo, TmoType, AllKinds, NoTag, TagType, CycleType
  <2>2. now \in 0 .. MaxTick /\ sets \in 0 .. MaxSets BY TmoAssumption DEF TimeoutInit
  <2> QED BY <2>1, <2>2, StoppedType, NoCallType DEF TimeoutInit, TimeoutTypeOK
<1>2. CallInv BY TmoAssumption DEF TimeoutInit, CallInv, CallOK, NoCall, Holding
<1>3. EventInv BY DEF TimeoutInit, EventInv, EventOK, Live
<1>4. TimerInv BY DEF TimeoutInit, TimerInv, TimerOK, Stopped
<1>5. SlotInv BY DEF TimeoutInit, SlotInv, SlotOK
<1> QED BY <1>1, <1>2, <1>3, <1>4, <1>5 DEF IInv

\* Every step of the timer API, of ODP and of the dispatcher keeps the invariant.
LEMMA NextKeeps == ASSUME IInv, [TimeoutNext]_tmovars PROVE IInv'
<1>1. CASE UNCHANGED tmovars
  BY <1>1 DEF IInv, TimeoutTypeOK, CallInv, CallOK, EventInv, EventOK, Live, TimerInv, TimerOK,
              SlotInv, SlotOK, Slot, Skipped, InCall, tmovars
<1>2. ASSUME NEW c \in Cores, Steps(c) PROVE IInv'
  BY <1>2, StartKeeps, RingStartKeeps, AckStartKeeps, CancelStoreKeeps, CancelOdpKeeps,
     CancelRingKeeps, AckSkipKeeps, FreeKeeps DEF Steps
<1>3. ASSUME NEW c \in Cores, Acks(c) PROVE IInv'
  BY <1>3, AckKeeps, RingAckKeeps DEF Acks
<1>4. ASSUME NEW c \in Cores, Calls(c) PROVE IInv'
  <2>1. PICK t \in Tmos :
          \/ \E k \in Kinds : TmoCreate(c, t, k)
          \/ TmoDelete(c, t) \/ TmoCancel(c, t)
          \/ \E e \in Events :
               \/ \E tick \in {now, now + Near} : SetAbs(c, t, e, tick)
               \/ SetRel(c, t, e, Near)
               \/ \E start \in {0, now + Near} : SetPeriodic(c, t, e, start)
          \/ \E m \in Mults : SetRing(c, t, m) \/ SetRingFreq(c, t, m)
    BY <1>4 DEF Calls
  <2>2. CASE \E k \in Kinds : TmoCreate(c, t, k) BY <2>2, CreateKeeps
  <2>3. CASE TmoDelete(c, t) BY <2>3, DeleteKeeps
  <2>4. CASE TmoCancel(c, t) BY <2>4, CancelKeeps
  <2>5. ASSUME NEW e \in Events,
               \/ \E tick \in {now, now + Near} : SetAbs(c, t, e, tick)
               \/ SetRel(c, t, e, Near)
               \/ \E start \in {0, now + Near} : SetPeriodic(c, t, e, start)
        PROVE  IInv'
    <3>1. \E type, tick : SetAt(c, t, e, type, tick) BY <2>5, SetIsSetAt
    <3> QED BY <3>1, SetKeeps
  <2>6. CASE \E m \in Mults : SetRing(c, t, m) \/ SetRingFreq(c, t, m)
    BY <2>6, SetRingKeeps DEF SetRingFreq
  <2> QED BY <2>1, <2>2, <2>3, <2>4, <2>5, <2>6
<1>5. ASSUME NEW t \in Tmos, Expire(t) \/ RingExpire(t) PROVE IInv'
  BY <1>5, ExpireKeeps, RingExpireKeeps
<1>6. ASSUME NEW e \in Events, Receive(e) \/ TmoTypeReset(e) PROVE IInv'
  BY <1>6, ReceiveKeeps, ResetKeeps
<1>7. CASE Tick BY <1>7, TickKeeps
<1> QED BY <1>1, <1>2, <1>3, <1>4, <1>5, <1>6, <1>7 DEF TimeoutNext

\* The invariant holds throughout, however the calls of the cores, the ODP timers
\* and the events interleave.
THEOREM TimeoutInductive == TimeoutSpec => []IInv
<1>1. TimeoutInit => IInv BY InitOK
<1>2. IInv /\ [TimeoutNext]_tmovars => IInv' BY NextKeeps
<1> QED BY <1>1, <1>2, PTL DEF TimeoutSpec

\* A live event is the only one of its timeout, so at most one is outstanding.
LEMMA AtMostOne == IInv => OneOutstanding
<1> SUFFICES ASSUME IInv, NEW t \in Tmos PROVE Cardinality(Outstanding(t)) <= 1
  BY DEF OneOutstanding
<1>1. \A e \in Outstanding(t) : e \in Events /\ Live(e) /\ hdr[e].tmo = t BY DEF Outstanding, Live
<1>2. \A e, f \in Outstanding(t) : f = e BY <1>1 DEF IInv, EventInv, EventOK
<1>3. CASE Outstanding(t) = {} BY <1>3, FS_EmptySet
<1>4. CASE Outstanding(t) # {}
  <2>1. PICK e : e \in Outstanding(t) BY <1>4
  <2>2. Outstanding(t) = {e} BY <1>2, <2>1
  <2>3. Cardinality({e}) = 1 BY FS_Singleton
  <2> QED BY <2>2, <2>3
<1> QED BY <1>3, <1>4

\* The slots of an active periodic timeout, from where its event is.
LEMMA SlotsFollow == IInv => SlotsAccounted
<1> SUFFICES ASSUME IInv, NEW t \in Tmos, tmo[t].kind \in {"skip", "noskip"}, ~idle[t],
                    ~InCall(t, {"setStart", "ackStart", "ackSkip"})
             PROVE  /\ tmo[t].last = cycle[t].first + (cycle[t].fired - 1 + (tmo[t].skips - cycle[t].skips)) * Period
                    /\ tmo[t].kind = "noskip" => tmo[t].skips - cycle[t].skips = 0
  BY DEF SlotsAccounted
<1>1. ~InCall(t, Holding) /\ ~InCall(t, {"setStart"}) BY DEF InCall, Holding
<1> QED BY <1>1 DEF IInv, SlotInv, SlotOK, Slot, Skipped

\* TimeoutInv: an inactive timeout is quiet, an active one has one event outstanding,
\* events given back are untagged, and every slot is served or counted as skipped.
THEOREM TimeoutCorrect == TimeoutSpec => []TimeoutInv
<1>1. IInv => InactiveIsQuiet
  <2> SUFFICES ASSUME IInv, NEW t \in Tmos, idle[t]
               PROVE  Outstanding(t) = {} /\ ~timer[t].armed /\ timer[t].pend = 0 /\ ~timer[t].ending
    BY DEF InactiveIsQuiet
  <2>1. ASSUME NEW e \in Outstanding(t) PROVE FALSE
    <3>1. e \in Events /\ Live(e) /\ hdr[e].tmo = t BY DEF Outstanding, Live
    <3> QED BY <3>1 DEF IInv, EventInv, EventOK
  <2> QED BY <2>1 DEF IInv, TimerInv, TimerOK
<1>2. IInv => ReturnedUntagged BY DEF IInv, EventInv, EventOK, ReturnedUntagged
<1>3. IInv => TimeoutInv BY <1>1, <1>2, AtMostOne, SlotsFollow DEF IInv, TimeoutInv
<1> QED BY <1>3, TimeoutInductive, PTL

\* No core but d has moved.
Moved(d) == call' = call \/ \E r : call' = [call EXCEPT ![d] = r]

\* Only a try of its own ack moves a core that is in ackStart.
LEMMA OwnStep ==
  ASSUME call \in [Cores -> CallType], TimeoutNext, NEW c \in Cores,
         call[c].pc = "ackStart", call'[c] # call[c]
  PROVE  \E ret \in Rets : AckStart(c, ret)
<1>1. ASSUME NEW d \in Cores, d # c, Steps(d) PROVE FALSE
  <2>1. Moved(d)
    BY <1>1 DEF Steps, SetStart, RingStart, AckStart, AckRetry, AckFail, AckNoskip, CancelStore,
                CancelOdp, CancelRing, AckSkip, DeleteFree, Returned, Moved
  <2> QED BY <1>1, <2>1 DEF Moved
<1>2. ASSUME NEW d \in Cores, Acks(d) \/ Calls(d) PROVE FALSE
  <2>1. call[d].pc = "none" /\ Moved(d)
    <3>1. ASSUME NEW r \in Events, NEW n \in Events, TmoAck(d, r, n) PROVE call[d].pc = "none" /\ Moved(d)
      BY <3>1 DEF TmoAck, Moved
    <3>2. ASSUME NEW t \in Tmos, RingAck(d, t) PROVE call[d].pc = "none" /\ Moved(d)
      BY <3>2 DEF RingAck, Moved
    <3>3. ASSUME NEW t \in Tmos, NEW k \in Kinds, TmoCreate(d, t, k) PROVE call[d].pc = "none" /\ Moved(d)
      BY <3>3 DEF TmoCreate, Moved
    <3>4. ASSUME NEW t \in Tmos, TmoDelete(d, t) \/ TmoCancel(d, t) PROVE call[d].pc = "none" /\ Moved(d)
      BY <3>4 DEF TmoDelete, TmoCancel, Moved
    <3>5. ASSUME NEW t \in Tmos, NEW e \in Events, NEW type, NEW tick, MaySet(d, t), Arm(d, t, e, type, tick)
          PROVE  call[d].pc = "none" /\ Moved(d)
      BY <3>5 DEF MaySet, Arm, Moved
    <3>6. ASSUME NEW t \in Tmos, NEW m, SetRing(d, t, m) PROVE call[d].pc = "none" /\ Moved(d)
      BY <3>6 DEF SetRing, MaySet, Moved
    <3>7. CASE Acks(d) BY <3>1, <3>2, <3>7 DEF Acks
    <3>8. CASE Calls(d)
      BY <3>3, <3>4, <3>5, <3>6, <3>8 DEF Calls, SetAbs, SetRel, SetPeriodic, SetRingFreq
    <3> QED BY <1>2, <3>7, <3>8
  <2>2. d # c BY <2>1
  <2> QED BY <2>1, <2>2 DEF Moved
<1>3. ASSUME Steps(c) PROVE \E ret \in Rets : AckStart(c, ret)
  BY <1>3 DEF Steps, SetStart, RingStart, CancelStore, CancelOdp, CancelRing, AckSkip, DeleteFree
<1>4. ASSUME NEW t \in Tmos, Expire(t) \/ RingExpire(t) PROVE FALSE
  BY <1>4 DEF Expire, RingExpire
<1>5. ASSUME NEW e \in Events, Receive(e) \/ TmoTypeReset(e) PROVE FALSE
  BY <1>5 DEF Receive, TmoTypeReset
<1>6. ~Tick BY DEF Tick
<1> QED BY <1>1, <1>2, <1>3, <1>4, <1>5, <1>6 DEF TimeoutNext

\* A try that ends the ack and leaves the timer armed is one that ODP accepted, for
\* the slot that the invariant tells of.
LEMMA ArmsNext ==
  ASSUME IInv, TimeoutNext, NEW c \in Cores, NEW t, t = call[c].t, call[c].pc = "ackStart",
         call'[c].pc = "none", timer'[t].armed
  PROVE  timer'[t].tick >= now + Near /\ timer'[t].tick - Period < now + Near
<1>1. /\ t \in Tmos /\ tmo[t].last \in Nat /\ now \in Nat /\ tmo[t].last - Period < now + Near
  BY AckKnows
<1>2. ~timer[t].armed BY InHand DEF Holding
<1>3. timer \in [Tmos -> TimerType] /\ call \in [Cores -> CallType] BY DEF IInv, TimeoutTypeOK
<1>4. PICK ret \in Rets : AckStart(c, ret) BY <1>3, OwnStep
<1>5. ret = "SUCCESS"
  <2>1. timer' # timer BY <1>2
  <2> QED BY <1>4, <2>1 DEF AckStart
<1>6. timer' = ArmedTimer(t, tmo[t].last, call[c].e) /\ ret \in OdpStart(t, tmo[t].last)
  BY <1>4, <1>5 DEF AckStart
<1>7. timer'[t].tick = tmo[t].last BY <1>1, <1>3, <1>6 DEF ArmedTimer, TimerType
<1>8. tmo[t].last >= now + Near BY <1>1, <1>2, <1>5, <1>6, TmoAssumption DEF OdpStart
<1> QED BY <1>1, <1>7, <1>8

\* ArmsNextSlot: an ack that arms the timer arms it for the earliest slot ODP accepts,
\* however late it is and however many tries it took.
THEOREM ArmsNextSlotHolds == TimeoutSpec => ArmsNextSlot
<1>1. IInv /\ [TimeoutNext]_tmovars =>
        [\A c \in Cores : LET t == call[c].t IN
           (call[c].pc = "ackStart" /\ call'[c].pc = "none" /\ timer'[t].armed) =>
             timer'[t].tick >= now + Near /\ timer'[t].tick - Period < now + Near]_tmovars
  <2> SUFFICES ASSUME IInv, TimeoutNext, NEW c \in Cores, NEW t, t = call[c].t,
                      call[c].pc = "ackStart", call'[c].pc = "none", timer'[t].armed
               PROVE  timer'[t].tick >= now + Near /\ timer'[t].tick - Period < now + Near
    OBVIOUS
  <2> QED BY ArmsNext
<1> QED BY <1>1, TimeoutInductive, PTL DEF TimeoutSpec, ArmsNextSlot

-----------------------------------------------------------------------------
(* Timers *)

\* A sequence of sums: the units of the slots S.
LEMMA UnitsFinite ==
  ASSUME NEW f \in [Slots -> Nat], NEW S \in SUBSET Slots
  PROVE  IsFiniteSet(Units(f, S)) /\ SumFor(f, S) \in Nat
<1> DEFINE R == {{i} \X (1..f[i]) : i \in S}  h == [i \in S |-> {i} \X (1..f[i])]
<1>1. IsFiniteSet(S) BY TimersAssumption, FS_Subset
<1>2. h \in Surjection(S, R) BY DEF Surjection
<1>3. IsFiniteSet(R)
  <2> HIDE DEF h, R
  <2> QED BY <1>1, <1>2, FS_Surjection
<1>4. ASSUME NEW T \in R PROVE IsFiniteSet(T)
  <2>1. PICK i \in S : T = {i} \X (1..f[i]) BY <1>4
  <2>2. f[i] \in Nat OBVIOUS
  <2>3. IsFiniteSet(1..f[i]) BY <2>2, FS_Interval
  <2>4. IsFiniteSet({i}) BY FS_Singleton
  <2> QED BY <2>1, <2>3, <2>4, FS_Product
<1>5. IsFiniteSet(UNION R)
  <2> HIDE DEF R
  <2> QED BY <1>3, <1>4, FS_UNION
<1>6. IsFiniteSet(Units(f, S)) BY <1>5 DEF Units
<1> QED BY <1>6, FS_CardinalityType DEF SumFor

\* The sum is that of the other slots and what slot i adds.
Splits(f, S, i) == SumFor(f, S) = SumFor(f, S \ {i}) + f[i]

\* A sum over slots is that of one slot and of the others.
LEMMA SumSplit ==
  ASSUME NEW f \in [Slots -> Nat], NEW S \in SUBSET Slots, NEW i \in S
  PROVE  Splits(f, S, i)
<1> DEFINE A == Units(f, S \ {i})  B == {i} \X (1..f[i])
<1>1. f[i] \in Nat OBVIOUS
<1>2. IsFiniteSet(A) /\ Cardinality(A) \in Nat
  <2>1. S \ {i} \in SUBSET Slots OBVIOUS
  <2>2. IsFiniteSet(A) BY <2>1, UnitsFinite
  <2> QED BY <2>2, FS_CardinalityType
<1>3. IsFiniteSet(B) /\ Cardinality(B) = f[i]
  <2>1. IsFiniteSet({i}) /\ Cardinality({i}) = 1 BY FS_Singleton
  <2>2. IsFiniteSet(1..f[i]) /\ Cardinality(1..f[i]) = f[i] BY <1>1, FS_Interval
  <2>3. IsFiniteSet(B) /\ Cardinality(B) = Cardinality({i}) * Cardinality(1..f[i])
    BY <2>1, <2>2, FS_Product
  <2> QED BY <1>1, <2>1, <2>2, <2>3
<1>4. Units(f, S) = A \cup B
  <2>1. ASSUME NEW x \in Units(f, S) PROVE x \in A \/ x \in B
    <3>1. PICK j \in S : x \in {j} \X (1..f[j]) BY <2>1 DEF Units
    <3>2. CASE j = i BY <3>1, <3>2
    <3>3. CASE j # i BY <3>1, <3>3 DEF Units
    <3> QED BY <3>2, <3>3
  <2>2. A \subseteq Units(f, S) BY DEF Units
  <2>3. B \subseteq Units(f, S) BY DEF Units
  <2> QED BY <2>1, <2>2, <2>3
<1>5. A \cap B = {}
  <2>1. \A x \in A : x[1] # i BY DEF Units
  <2>2. \A x \in B : x[1] = i OBVIOUS
  <2> QED BY <2>1, <2>2
<1> HIDE DEF A, B
<1>6. Cardinality(A \cup B) = Cardinality(A) + Cardinality(B) - Cardinality({})
  BY <1>2, <1>3, <1>5, FS_Union
<1> QED BY <1>1, <1>2, <1>3, <1>4, <1>6, FS_EmptySet DEF Splits, SumFor, A

\* Sums are alike when what they add is.
LEMMA SumSame ==
  ASSUME NEW f, NEW g, NEW S, \A i \in S : f[i] = g[i]
  PROVE  SumFor(f, S) = SumFor(g, S)
<1>1. Units(f, S) = Units(g, S) BY DEF Units
<1> QED BY <1>1 DEF SumFor

\* A sum is smaller when what it adds is, of one slot at least.
LEMMA SumLess ==
  ASSUME NEW f \in [Slots -> Nat], NEW g \in [Slots -> Nat], NEW S \in SUBSET Slots,
         \A i \in S : f[i] <= g[i], NEW j \in S, f[j] < g[j]
  PROVE  SumFor(f, S) < SumFor(g, S)
<1>1. /\ IsFiniteSet(Units(f, S)) /\ SumFor(f, S) \in Nat
      /\ IsFiniteSet(Units(g, S)) /\ SumFor(g, S) \in Nat
  BY UnitsFinite
<1>2. Units(f, S) \in SUBSET Units(g, S)
  <2>1. ASSUME NEW x \in Units(f, S) PROVE x \in Units(g, S)
    <3>1. PICK i \in S : x \in {i} \X (1..f[i]) BY <2>1 DEF Units
    <3>2. f[i] \in Nat /\ g[i] \in Nat /\ f[i] <= g[i] OBVIOUS
    <3>3. x \in {i} \X (1..g[i]) BY <3>1, <3>2
    <3> QED BY <3>3 DEF Units
  <2> QED BY <2>1
<1>3. <<j, g[j]>> \in Units(g, S)
  <2>1. f[j] \in Nat /\ g[j] \in Nat OBVIOUS
  <2>2. g[j] \in 1..g[j] BY <2>1
  <2>3. <<j, g[j]>> \in {j} \X (1..g[j]) BY <2>2
  <2> QED BY <2>3 DEF Units
<1>4. <<j, g[j]>> \notin Units(f, S)
  <2>1. f[j] \in Nat /\ g[j] \in Nat OBVIOUS
  <2>2. g[j] \notin 1..f[j] BY <2>1
  <2> QED BY <2>2 DEF Units
<1>5. /\ Cardinality(Units(f, S)) <= Cardinality(Units(g, S))
      /\ Cardinality(Units(g, S)) = Cardinality(Units(f, S)) => Units(g, S) = Units(f, S)
  BY <1>1, <1>2, FS_Subset
<1> QED BY <1>1, <1>3, <1>4, <1>5 DEF SumFor

-----------------------------------------------------------------------------
(* The inductive invariant *)

Res == [i \in Slots |-> slot[i].reserve]

\* A slot without an ODP timer pool is unused; one with it has its handle pool,
\* and no more handles are taken than are reserved.
SlotNumbers(i) ==
  /\ slot[i].odp <=> slot[i].pool # "none"
  /\ slot[i].odp => slot[i].pool = (IF Shared THEN "shared" ELSE "own")
  /\ handles[i] <= slot[i].reserve
  /\ ~slot[i].odp => handles[i] = 0
SlotsOK == \A i \in Slots : SlotNumbers(i)

\* What is counted is there.
CountsOK ==
  /\ shared => Shared
  /\ Shared /\ Timers # {} => shared
  /\ numTimers = Cardinality(Timers)
  /\ numRings = Cardinality({i \in Timers : slot[i].ring})
  /\ Shared => reserved = SumFor(Res, Timers)

TmInv == TimersTypeOK /\ SlotsOK /\ CountsOK

\* A non-empty set of numbers has a smallest one, and Min() is it.
LEMMA MinIs ==
  ASSUME NEW T \in SUBSET Nat, T # {}
  PROVE  Min(T) \in T /\ \A y \in T : Min(T) <= y
<1>1. IsWellFoundedOn(OpToRel(<, Nat), Nat) BY NatLessThanWellFounded
<1>2. PICK x \in T : \A y \in T : ~(<<y, x>> \in OpToRel(<, Nat)) BY <1>1, WFMin
<1>3. \A y \in T : ~(y < x) BY <1>2 DEF OpToRel
<1>4. \A y \in T : x <= y BY <1>3
<1> QED BY <1>4 DEF Min

\* A timer slot that is free.
LEMMA FreeIs ==
  ASSUME FreeSlots # {}
  PROVE  FreeTimerSlot \in Slots /\ ~slot[FreeTimerSlot].odp
<1>1. FreeSlots \in SUBSET Nat /\ FreeSlots # {} BY TimersAssumption DEF FreeSlots
<1>2. FreeTimerSlot \in FreeSlots BY <1>1, MinIs DEF FreeTimerSlot
<1> QED BY <1>2 DEF FreeSlots

\* The timers are the slots with an ODP timer pool, a finite number of them.
LEMMA TimersIs ==
  ASSUME SlotsOK
  PROVE  /\ Timers = {i \in Slots : slot[i].odp} /\ Timers \in SUBSET Slots
         /\ IsFiniteSet(Timers) /\ Cardinality(Timers) \in Nat
<1>1. Timers = {i \in Slots : slot[i].odp} BY DEF SlotsOK, SlotNumbers, Timers, Valid
<1>2. Timers \in SUBSET Slots BY <1>1
<1>3. IsFiniteSet(Timers) BY <1>2, TimersAssumption, FS_Subset
<1> QED BY <1>1, <1>2, <1>3, FS_CardinalityType

\* What the steps that create a timer do to the slot i: Made() when they
\* succeed, Unmade() when they fail.
Made(i, num, ring) == slot' = [slot EXCEPT ![i] = NewSlot(num, ring)]
Unmade(i) == \E r \in Nat : slot' = [slot EXCEPT ![i] = [Unused(slot[i]) EXCEPT !.reserve = r]]

\* Where a create fails, and what it leaves in the slot.
LEMMA FailureIs ==
  ASSUME "start" \notin MayFail, NEW num \in NumTmos, NEW fail \in MayFail \cup {"none"},
         TmInv, NEW i \in Slots, NEW ring,
         slot' = [slot EXCEPT ![i] = SlotAfter(FirstFailure(fail, num), slot[i], NewSlot(num, ring))]
  PROVE  /\ FirstFailure(fail, num) \in {"odp_pool", "tmo_pool", "reserve", "none"}
         /\ FirstFailure(fail, num) = "none" => Made(i, num, ring) /\ Fits(num) /\ SharedAfter("none") = Shared
         /\ FirstFailure(fail, num) # "none" => Unmade(i)
<1> DEFINE failed == FirstFailure(fail, num)
<1>1. num \in Nat /\ num # 0 BY TimersAssumption
<1>2. failed \in {"odp_pool", "tmo_pool", "reserve", "none"} BY DEF FirstFailure
<1>3. failed = "none" => Fits(num) BY DEF FirstFailure
<1>4. shared \in BOOLEAN /\ shared => Shared BY DEF TmInv, CountsOK, TimersTypeOK
<1>5. Shared \in BOOLEAN BY TimersAssumption
<1>6. SharedAfter("none") = Shared BY <1>4, <1>5 DEF SharedAfter, TmInv, TimersTypeOK, CountsOK
<1>7. slot[i] \in [odp : BOOLEAN, pool : {"none", "own", "shared"}, ring : BOOLEAN, reserve : Nat]
  BY DEF TmInv, TimersTypeOK
<1> HIDE DEF failed
<1>8. failed = "none" => Made(i, num, ring) BY DEF SlotAfter, Made, failed
<1>9. CASE failed = "reserve"
  <2>1. slot' = [slot EXCEPT ![i] = [Unused(slot[i]) EXCEPT !.reserve = num]]
    BY <1>9 DEF SlotAfter, NewSlot, failed
  <2>2. Unmade(i) BY <1>1, <2>1 DEF Unmade
  <2> QED BY <1>2, <1>3, <1>6, <1>8, <2>2 DEF failed
<1>10. CASE failed \in {"odp_pool", "tmo_pool"}
  <2>1. slot' = [slot EXCEPT ![i] = Unused(slot[i])] BY <1>10 DEF SlotAfter, failed
  <2>2. Unused(slot[i]) = [Unused(slot[i]) EXCEPT !.reserve = slot[i].reserve] BY <1>7 DEF Unused
  <2>3. Unmade(i) BY <1>7, <2>1, <2>2 DEF Unmade
  <2> QED BY <1>2, <1>3, <1>6, <1>8, <2>3 DEF failed
<1> QED BY <1>2, <1>3, <1>6, <1>8, <1>9, <1>10 DEF failed

\* A slot that is not in use and stays so changes nothing of what is counted.
LEMMA UnmadeKeeps ==
  ASSUME TmInv, NEW i \in Slots, ~slot[i].odp, Unmade(i), UNCHANGED handles
  PROVE  /\ slot' \in [Slots -> [odp : BOOLEAN, pool : {"none", "own", "shared"}, ring : BOOLEAN, reserve : Nat]]
         /\ SlotsOK' /\ Timers' = Timers
         /\ {j \in Timers : slot[j].ring}' = {j \in Timers : slot[j].ring}
         /\ SumFor(Res, Timers)' = SumFor(Res, Timers)
<1>1. PICK r \in Nat : slot' = [slot EXCEPT ![i] = [Unused(slot[i]) EXCEPT !.reserve = r]]
  BY DEF Unmade
<1>2. slot \in [Slots -> [odp : BOOLEAN, pool : {"none", "own", "shared"}, ring : BOOLEAN, reserve : Nat]]
  BY DEF TmInv, TimersTypeOK
<1>3. slot' \in [Slots -> [odp : BOOLEAN, pool : {"none", "own", "shared"}, ring : BOOLEAN, reserve : Nat]]
  BY <1>1, <1>2 DEF Unused
<1>4. /\ slot'[i].odp = FALSE /\ slot'[i].pool = "none" /\ slot'[i].reserve = r
      /\ \A j \in Slots \ {i} : slot'[j] = slot[j]
  BY <1>1, <1>2 DEF Unused
<1>5. SlotsOK'
  <2>1. handles[i] = 0 BY DEF TmInv, SlotsOK, SlotNumbers
  <2>2. SlotNumbers(i)' BY <1>4, <2>1 DEF SlotNumbers
  <2>3. ASSUME NEW j \in Slots \ {i} PROVE SlotNumbers(j)'
    BY <1>4 DEF SlotNumbers, TmInv, SlotsOK
  <2> QED BY <2>2, <2>3 DEF SlotsOK
<1>6. Timers = {j \in Slots : slot[j].odp} BY TimersIs DEF TmInv
<1>7. Timers' = {j \in Slots : slot'[j].odp} BY <1>5 DEF Timers, Valid, SlotsOK, SlotNumbers
<1>8. Timers' = Timers /\ i \notin Timers BY <1>4, <1>6, <1>7
<1>9. {j \in Timers : slot[j].ring}' = {j \in Timers : slot[j].ring}
  BY <1>4, <1>6, <1>8
<1>10. \A j \in Timers : Res'[j] = Res[j] BY <1>4, <1>6, <1>8 DEF Res
<1>11. SumFor(Res', Timers) = SumFor(Res, Timers) BY <1>10, SumSame
<1>12. SumFor(Res, Timers)' = SumFor(Res', Timers) BY <1>8 DEF SumFor, Units
<1> QED BY <1>3, <1>5, <1>8, <1>9, <1>11, <1>12

\* A new timer adds itself, its ring and its reservation.
Adds(i, num, ring) ==
  /\ Cardinality(Timers') = Cardinality(Timers) + 1
  /\ Cardinality({j \in Timers : slot[j].ring}') =
       Cardinality({j \in Timers : slot[j].ring}) + (IF ring THEN 1 ELSE 0)
  /\ SumFor(Res, Timers)' = SumFor(Res, Timers) + num

LEMMA MadeAdds ==
  ASSUME TmInv, NEW i \in Slots, ~slot[i].odp, NEW num \in Nat, NEW ring \in BOOLEAN,
         Made(i, num, ring), UNCHANGED handles
  PROVE  /\ slot' \in [Slots -> [odp : BOOLEAN, pool : {"none", "own", "shared"}, ring : BOOLEAN, reserve : Nat]]
         /\ SlotsOK' /\ Adds(i, num, ring)
<1> DEFINE R == {j \in Timers : slot[j].ring}
<1>1. slot' = [slot EXCEPT ![i] = NewSlot(num, ring)] BY DEF Made
<1>2. slot \in [Slots -> [odp : BOOLEAN, pool : {"none", "own", "shared"}, ring : BOOLEAN, reserve : Nat]]
  BY DEF TmInv, TimersTypeOK
<1>3. slot' \in [Slots -> [odp : BOOLEAN, pool : {"none", "own", "shared"}, ring : BOOLEAN, reserve : Nat]]
  BY <1>1, <1>2 DEF NewSlot
<1>4. /\ slot'[i].odp /\ slot'[i].pool = (IF Shared THEN "shared" ELSE "own")
      /\ slot'[i].reserve = num /\ slot'[i].ring = ring
      /\ \A j \in Slots \ {i} : slot'[j] = slot[j]
  BY <1>1, <1>2 DEF NewSlot
<1>5. SlotsOK'
  <2>1. handles[i] = 0 BY DEF TmInv, SlotsOK, SlotNumbers
  <2>2. SlotNumbers(i)' BY <1>4, <2>1 DEF SlotNumbers
  <2>3. ASSUME NEW j \in Slots \ {i} PROVE SlotNumbers(j)'
    BY <1>4 DEF SlotNumbers, TmInv, SlotsOK
  <2> QED BY <2>2, <2>3 DEF SlotsOK
<1>6. Timers = {j \in Slots : slot[j].odp} /\ IsFiniteSet(Timers) /\ Timers \in SUBSET Slots
  BY TimersIs DEF TmInv
<1>7. Timers' = {j \in Slots : slot'[j].odp} BY <1>5 DEF Timers, Valid, SlotsOK, SlotNumbers
<1>8. Timers' = Timers \cup {i} /\ i \notin Timers BY <1>4, <1>6, <1>7
<1>9. Cardinality(Timers') = Cardinality(Timers) + 1 BY <1>6, <1>8, FS_AddElement
<1>10. Cardinality(R') = Cardinality(R) + (IF ring THEN 1 ELSE 0)
  <2>1. R' = IF ring THEN R \cup {i} ELSE R BY <1>4, <1>6, <1>8
  <2>2. i \notin R /\ R \in SUBSET Timers BY <1>8
  <2>3. IsFiniteSet(R) BY <1>6, <2>2, FS_Subset
  <2>4. Cardinality(R) \in Nat BY <2>3, FS_CardinalityType
  <2> HIDE DEF R
  <2>5. Cardinality(R \cup {i}) = Cardinality(R) + 1 BY <2>2, <2>3, FS_AddElement
  <2> QED BY <2>1, <2>4, <2>5
<1>11. SumFor(Res, Timers)' = SumFor(Res, Timers) + num
  <2>1. Res' \in [Slots -> Nat] /\ Res'[i] = num BY <1>3, <1>4 DEF Res
  <2>2. Timers' \in SUBSET Slots /\ i \in Timers' /\ Timers' \ {i} = Timers BY <1>6, <1>8
  <2>3. Splits(Res', Timers', i) BY <2>1, <2>2, SumSplit
  <2>4. \A j \in Timers : Res'[j] = Res[j] BY <1>4, <1>6, <1>8 DEF Res
  <2>5. SumFor(Res', Timers) = SumFor(Res, Timers) BY <2>4, SumSame
  <2>6. SumFor(Res, Timers)' = SumFor(Res', Timers') BY DEF SumFor, Units
  <2> QED BY <2>1, <2>2, <2>3, <2>5, <2>6 DEF Splits
<1> QED BY <1>3, <1>5, <1>9, <1>10, <1>11 DEF Adds

\* A create without a failure of the start keeps the invariant: the counters and
\* the reservation are raised exactly when there is a new timer.
Created(i, num, ring, failed) ==
  /\ slot' = [slot EXCEPT ![i] = SlotAfter(failed, slot[i], NewSlot(num, ring))]
  /\ shared' = SharedAfter(failed)
  /\ reserved' = (IF Shared /\ failed = "none" THEN reserved + num ELSE reserved)
  /\ numTimers' = (IF failed = "none" THEN numTimers + 1 ELSE numTimers)
  /\ numRings' = (IF failed = "none" /\ ring THEN numRings + 1 ELSE numRings)
  /\ UNCHANGED handles

\* A create, done or failed, keeps the invariant.
LEMMA CreatedKeeps ==
  ASSUME "start" \notin MayFail, NEW num \in NumTmos, NEW fail \in MayFail \cup {"none"},
         TmInv, NEW i \in Slots, ~slot[i].odp, NEW ring \in BOOLEAN,
         Created(i, num, ring, FirstFailure(fail, num))
  PROVE  TmInv'
<1> DEFINE failed == FirstFailure(fail, num)
<1>1. num \in Nat /\ num # 0 BY TimersAssumption
<1>2. /\ failed \in {"odp_pool", "tmo_pool", "reserve", "none"}
      /\ failed = "none" => Made(i, num, ring) /\ Fits(num) /\ SharedAfter("none") = Shared
      /\ failed # "none" => Unmade(i)
  BY FailureIs DEF Created
<1>3. /\ shared' = SharedAfter(failed)
      /\ reserved' = (IF Shared /\ failed = "none" THEN reserved + num ELSE reserved)
      /\ numTimers' = (IF failed = "none" THEN numTimers + 1 ELSE numTimers)
      /\ numRings' = (IF failed = "none" /\ ring THEN numRings + 1 ELSE numRings)
      /\ handles' = handles
  BY DEF Created
<1> HIDE DEF failed
<1>4. /\ shared \in BOOLEAN /\ reserved \in 0..SharedSize /\ numTimers \in Nat /\ numRings \in Nat
      /\ handles \in [Slots -> Nat] /\ SharedSize \in Nat /\ Shared \in BOOLEAN
  BY TimersAssumption DEF TmInv, TimersTypeOK
<1>5. /\ shared => Shared
      /\ Shared /\ Timers # {} => shared
      /\ numTimers = Cardinality(Timers)
      /\ numRings = Cardinality({j \in Timers : slot[j].ring})
      /\ Shared => reserved = SumFor(Res, Timers)
  BY DEF TmInv, CountsOK
<1>6. shared' \in BOOLEAN /\ (shared' => Shared) /\ (shared => shared')
  BY <1>3, <1>4, <1>5 DEF SharedAfter
<1>7. CASE failed = "none"
  <2>1. Made(i, num, ring) /\ Fits(num) /\ shared' = Shared BY <1>2, <1>3, <1>7
  <2>2. /\ slot' \in [Slots -> [odp : BOOLEAN, pool : {"none", "own", "shared"}, ring : BOOLEAN, reserve : Nat]]
        /\ SlotsOK' /\ Adds(i, num, ring)
    BY <1>1, <1>3, <2>1, MadeAdds
  <2>3. Shared => reserved + num <= SharedSize BY <1>1, <1>4, <2>1 DEF Fits
  <2>4. TimersTypeOK' BY <1>1, <1>3, <1>4, <1>6, <1>7, <2>2, <2>3 DEF TimersTypeOK
  <2>5. CountsOK' BY <1>3, <1>4, <1>5, <1>6, <1>7, <2>1, <2>2 DEF CountsOK, Adds
  <2> QED BY <2>2, <2>4, <2>5 DEF TmInv
<1>8. CASE failed # "none"
  <2>1. /\ slot' \in [Slots -> [odp : BOOLEAN, pool : {"none", "own", "shared"}, ring : BOOLEAN, reserve : Nat]]
        /\ SlotsOK' /\ Timers' = Timers
        /\ {j \in Timers : slot[j].ring}' = {j \in Timers : slot[j].ring}
        /\ SumFor(Res, Timers)' = SumFor(Res, Timers)
    BY <1>2, <1>3, <1>8, UnmadeKeeps
  <2>2. TimersTypeOK' BY <1>3, <1>4, <1>6, <1>8, <2>1 DEF TimersTypeOK
  <2>3. CountsOK' BY <1>3, <1>5, <1>6, <1>8, <2>1 DEF CountsOK
  <2> QED BY <2>1, <2>2, <2>3 DEF TmInv
<1> QED BY <1>7, <1>8

\* em_timer_create()
LEMMA TimerCreateStep ==
  ASSUME "start" \notin MayFail, NEW num \in NumTmos, NEW fail \in MayFail \cup {"none"},
         TmInv, TimerCreate(num, fail)
  PROVE  TmInv'
<1> DEFINE i == FreeTimerSlot  failed == FirstFailure(fail, num)
<1>1. i \in Slots /\ ~slot[i].odp BY FreeIs DEF TimerCreate
<1>2. failed # "start" BY DEF FirstFailure
<1>3. Created(i, num, FALSE, failed)
  <2>1. /\ slot' = [slot EXCEPT ![i] = SlotAfter(failed, slot[i], NewSlot(num, FALSE))]
        /\ shared' = SharedAfter(failed)
        /\ reserved' = IF Shared /\ failed \in {"start", "none"} THEN reserved + num ELSE reserved
    BY DEF TimerCreate
  <2>2. /\ numTimers' = IF failed = "none" THEN numTimers + 1 ELSE numTimers
        /\ UNCHANGED <<numRings, handles>>
    BY DEF TimerCreate
  <2> HIDE DEF failed, i
  <2> QED BY <1>2, <2>1, <2>2 DEF Created
<1> HIDE DEF failed, i
<1> QED BY <1>1, <1>3, CreatedKeeps DEF failed

\* em_timer_ring_create()
LEMMA RingCreateStep ==
  ASSUME "start" \notin MayFail, NEW num \in NumTmos, NEW fail \in MayFail \cup {"none"},
         TmInv, RingCreate(num, fail)
  PROVE  TmInv'
<1> DEFINE i == FreeTimerSlot  failed == FirstFailure(fail, num)
<1>1. i \in Slots /\ ~slot[i].odp BY FreeIs DEF RingCreate
<1>2. failed # "start" BY DEF FirstFailure
<1>3. Created(i, num, TRUE, failed)
  <2>1. /\ slot' = [slot EXCEPT ![i] = SlotAfter(failed, slot[i], NewSlot(num, TRUE))]
        /\ shared' = SharedAfter(failed)
        /\ reserved' = IF Shared /\ failed \in {"start", "none"} THEN reserved + num ELSE reserved
    BY DEF RingCreate
  <2>2. /\ numTimers' = IF failed \in {"start", "none"} THEN numTimers + 1 ELSE numTimers
        /\ numRings' = IF failed \in {"start", "none"} THEN numRings + 1 ELSE numRings
        /\ UNCHANGED handles
    BY DEF RingCreate
  <2> HIDE DEF failed, i
  <2> QED BY <1>2, <2>1, <2>2 DEF Created
<1> HIDE DEF failed, i
<1> QED BY <1>1, <1>3, CreatedKeeps DEF failed

-----------------------------------------------------------------------------
(* Deletes and handles *)

\* em_timer_delete()
LEMMA TimerDeleteStep ==
  ASSUME TmInv, NEW i \in Slots, TimerDelete(i)
  PROVE  TmInv'
<1> DEFINE R == {j \in Timers : slot[j].ring}
<1>1. /\ Valid(i) /\ handles[i] = 0
      /\ slot' = [slot EXCEPT ![i] = IF shared THEN [Unused(slot[i]) EXCEPT !.reserve = 0]
                                               ELSE Unused(slot[i])]
      /\ numRings' = IF slot[i].ring /\ numRings > 0 THEN numRings - 1 ELSE numRings
      /\ numTimers' = numTimers - 1
      /\ reserved' = IF shared THEN reserved - slot[i].reserve ELSE reserved
      /\ shared' = (shared /\ numTimers - 1 # 0)
      /\ handles' = handles
  BY DEF TimerDelete
<1>2. slot \in [Slots -> [odp : BOOLEAN, pool : {"none", "own", "shared"}, ring : BOOLEAN, reserve : Nat]]
  BY DEF TmInv, TimersTypeOK
<1>3. /\ shared \in BOOLEAN /\ reserved \in 0..SharedSize /\ numTimers \in Nat /\ numRings \in Nat
      /\ handles \in [Slots -> Nat] /\ SharedSize \in Nat /\ Shared \in BOOLEAN
  BY TimersAssumption DEF TmInv, TimersTypeOK
<1>4. slot' \in [Slots -> [odp : BOOLEAN, pool : {"none", "own", "shared"}, ring : BOOLEAN, reserve : Nat]]
  BY <1>1, <1>2 DEF Unused
<1>5. /\ slot'[i].odp = FALSE /\ slot'[i].pool = "none" /\ slot'[i].reserve \in Nat
      /\ \A j \in Slots \ {i} : slot'[j] = slot[j]
  BY <1>1, <1>2 DEF Unused
<1>6. SlotsOK'
  <2>1. SlotNumbers(i)' BY <1>1, <1>5 DEF SlotNumbers
  <2>2. ASSUME NEW j \in Slots \ {i} PROVE SlotNumbers(j)'
    BY <1>1, <1>5 DEF SlotNumbers, TmInv, SlotsOK
  <2> QED BY <2>1, <2>2 DEF SlotsOK
<1>7. Timers = {j \in Slots : slot[j].odp} /\ IsFiniteSet(Timers) /\ Timers \in SUBSET Slots
  BY TimersIs DEF TmInv
<1>8. Timers' = {j \in Slots : slot'[j].odp} BY <1>6 DEF Timers, Valid, SlotsOK, SlotNumbers
<1>9. Timers' = Timers \ {i} /\ i \in Timers
  <2>1. slot[i].odp BY <1>1 DEF Valid
  <2> QED BY <1>5, <1>7, <1>8, <2>1
<1>10. Cardinality(Timers') = Cardinality(Timers) - 1 BY <1>7, <1>9, FS_RemoveElement
<1>11. Cardinality(R') = Cardinality(R) - (IF slot[i].ring THEN 1 ELSE 0)
  <2>1. R' = R \ {i} BY <1>5, <1>7, <1>9
  <2>2. R \in SUBSET Timers /\ (i \in R <=> slot[i].ring) BY <1>9
  <2>3. IsFiniteSet(R) BY <1>7, <2>2, FS_Subset
  <2>4. Cardinality(R) \in Nat BY <2>3, FS_CardinalityType
  <2> HIDE DEF R
  <2>5. Cardinality(R \ {i}) = IF i \in R THEN Cardinality(R) - 1 ELSE Cardinality(R)
    BY <2>3, FS_RemoveElement
  <2> QED BY <2>1, <2>2, <2>4, <2>5
<1>12. /\ shared => Shared
       /\ Shared /\ Timers # {} => shared
       /\ numTimers = Cardinality(Timers)
       /\ numRings = Cardinality(R)
       /\ Shared => reserved = SumFor(Res, Timers)
  BY DEF TmInv, CountsOK
<1>13. slot[i].ring => numRings > 0
  <2>1. slot[i].ring => i \in R BY <1>9
  <2>2. R \in SUBSET Timers OBVIOUS
  <2>3. IsFiniteSet(R) BY <1>7, <2>2, FS_Subset
  <2> HIDE DEF R
  <2>4. Cardinality(R) = 0 => R = {} BY <2>3, FS_EmptySet
  <2> QED BY <1>3, <1>12, <2>1, <2>4
<1>14. numTimers # 0
  <2>1. Cardinality(Timers) = 0 => Timers = {} BY <1>7, FS_EmptySet
  <2> QED BY <1>9, <1>12, <2>1
<1>15. numTimers - 1 = 0 => Timers' = {}
  <2>1. IsFiniteSet(Timers') BY <1>7, <1>9, FS_Subset
  <2>2. Cardinality(Timers') = 0 => Timers' = {} BY <2>1, FS_EmptySet
  <2> QED BY <1>3, <1>10, <1>12, <2>2
<1>16. /\ slot[i].reserve \in Nat /\ SumFor(Res', Timers') \in Nat
       /\ SumFor(Res, Timers) = SumFor(Res', Timers') + slot[i].reserve
  <2>1. Res \in [Slots -> Nat] /\ Res[i] = slot[i].reserve BY <1>2 DEF Res
  <2>2. Splits(Res, Timers, i) BY <1>7, <1>9, <2>1, SumSplit
  <2>3. \A j \in Timers' : Res'[j] = Res[j] BY <1>5, <1>7, <1>9 DEF Res
  <2>4. SumFor(Res', Timers') = SumFor(Res, Timers') BY <2>3, SumSame
  <2>5. SumFor(Res, Timers') \in Nat
    <3>1. Timers' \in SUBSET Slots BY <1>7, <1>9
    <3> QED BY <2>1, <3>1, UnitsFinite
  <2> QED BY <1>2, <1>9, <2>1, <2>2, <2>4, <2>5 DEF Splits
<1>17. SumFor(Res, Timers)' = SumFor(Res', Timers') BY DEF SumFor, Units
<1>18. Shared => shared BY <1>9, <1>12
<1>19. Shared => reserved' = SumFor(Res', Timers')
  BY <1>1, <1>3, <1>12, <1>16, <1>18
<1>20. reserved' \in 0..SharedSize BY <1>1, <1>3, <1>12, <1>16, <1>19
<1>21. numTimers' \in Nat /\ numRings' \in Nat BY <1>1, <1>3, <1>14
<1>22. TimersTypeOK' BY <1>1, <1>3, <1>4, <1>20, <1>21 DEF TimersTypeOK
<1> HIDE DEF R
<1>23. /\ numTimers' = Cardinality(Timers') /\ numRings' = Cardinality(R')
  BY <1>1, <1>2, <1>3, <1>10, <1>11, <1>12, <1>13
<1>24. (shared' => Shared) /\ (Shared /\ Timers' # {} => shared')
  BY <1>1, <1>12, <1>15, <1>18
<1>25. CountsOK' BY <1>17, <1>19, <1>23, <1>24 DEF CountsOK, R
<1> QED BY <1>6, <1>22, <1>25 DEF TmInv

\* Timeout handles that are taken and given back.
LEMMA HandleStep ==
  ASSUME RingWithin, TmInv, NEW i \in Slots, HandleAlloc(i) \/ HandleFree(i)
  PROVE  TmInv'
<1>1. /\ handles \in [Slots -> Nat]
      /\ slot \in [Slots -> [odp : BOOLEAN, pool : {"none", "own", "shared"}, ring : BOOLEAN, reserve : Nat]]
  BY DEF TmInv, TimersTypeOK
<1>2. UNCHANGED <<slot, shared, reserved, numTimers, numRings>> BY DEF HandleAlloc, HandleFree
<1>3. /\ handles' \in [Slots -> Nat] /\ \A j \in Slots \ {i} : handles'[j] = handles[j]
      /\ handles'[i] <= slot[i].reserve /\ (slot[i].odp \/ handles'[i] = 0)
  <2>1. CASE HandleAlloc(i)
    <3>1. handles[i] < slot[i].reserve /\ slot[i].odp /\ handles' = [handles EXCEPT ![i] = handles[i] + 1]
      BY <2>1 DEF HandleAlloc, Valid
    <3> QED BY <1>1, <3>1
  <2>2. CASE HandleFree(i)
    <3>1. handles[i] > 0 /\ handles' = [handles EXCEPT ![i] = handles[i] - 1]
      BY <2>2 DEF HandleFree
    <3>2. handles[i] <= slot[i].reserve /\ slot[i].odp
      BY <3>1 DEF TmInv, SlotsOK, SlotNumbers
    <3> QED BY <1>1, <3>1, <3>2
  <2> QED BY <2>1, <2>2
<1>4. SlotsOK'
  <2>1. SlotNumbers(i)' BY <1>2, <1>3 DEF SlotNumbers, TmInv, SlotsOK
  <2>2. ASSUME NEW j \in Slots \ {i} PROVE SlotNumbers(j)'
    BY <1>2, <1>3 DEF SlotNumbers, TmInv, SlotsOK
  <2> QED BY <2>1, <2>2 DEF SlotsOK
<1>5. TimersTypeOK' BY <1>2, <1>3 DEF TmInv, TimersTypeOK
<1>6. CountsOK'
  <2>1. Timers' = Timers /\ Res' = Res BY <1>2 DEF Timers, Valid, Res
  <2> QED BY <1>2, <2>1 DEF TmInv, CountsOK
<1> QED BY <1>4, <1>5, <1>6 DEF TmInv

-----------------------------------------------------------------------------
\* Before the first timer.
LEMMA TmInitIs == TimersInit => TmInv
<1> SUFFICES ASSUME TimersInit PROVE TmInv OBVIOUS
<1>1. SharedSize \in Nat BY TimersAssumption
<1>2. TimersTypeOK
  <2> DEFINE T == [odp : BOOLEAN, pool : {"none", "own", "shared"}, ring : BOOLEAN, reserve : Nat]
             s0 == [odp |-> FALSE, pool |-> "none", ring |-> FALSE, reserve |-> 0]
  <2>1. s0 \in T OBVIOUS
  <2>2. slot = [i \in Slots |-> s0] BY DEF TimersInit
  <2> HIDE DEF s0
  <2>3. slot \in [Slots -> T] BY <2>1, <2>2
  <2>4. handles \in [Slots -> Nat] BY DEF TimersInit
  <2>5. shared = FALSE /\ reserved = 0 /\ numTimers = 0 /\ numRings = 0 BY DEF TimersInit
  <2>6. reserved \in 0..SharedSize BY <1>1, <2>5
  <2> HIDE DEF T
  <2> QED BY <2>3, <2>4, <2>5, <2>6 DEF TimersTypeOK, T
<1>3. SlotsOK BY DEF TimersInit, SlotsOK, SlotNumbers
<1>4. Timers = {} BY DEF TimersInit, Timers, Valid
<1>5. {i \in Timers : slot[i].ring} = {} BY <1>4
<1>6. Units(Res, Timers) = {} BY <1>4 DEF Units
<1>7. CountsOK BY <1>4, <1>5, <1>6, FS_EmptySet DEF TimersInit, CountsOK, SumFor
<1> QED BY <1>2, <1>3, <1>7 DEF TmInv

\* Every step keeps the invariant of the timers.
LEMMA TmStepIs ==
  ASSUME "start" \notin MayFail, RingWithin, TmInv, [TimersNext]_tvars
  PROVE  TmInv'
<1>1. ASSUME NEW num \in NumTmos, NEW fail \in MayFail \cup {"none"}, TimerCreate(num, fail)
      PROVE  TmInv'
  BY <1>1, TimerCreateStep
<1>2. ASSUME NEW num \in NumTmos, NEW fail \in MayFail \cup {"none"}, RingCreate(num, fail)
      PROVE  TmInv'
  BY <1>2, RingCreateStep
<1>3. ASSUME NEW i \in Slots, TimerDelete(i) PROVE TmInv' BY <1>3, TimerDeleteStep
<1>4. ASSUME NEW i \in Slots, HandleAlloc(i) \/ HandleFree(i) PROVE TmInv' BY <1>4, HandleStep
<1>5. ASSUME UNCHANGED tvars PROVE TmInv'
  BY <1>5 DEF tvars, TmInv, TimersTypeOK, SlotsOK, SlotNumbers, CountsOK, Timers, Valid, Res, SumFor, Units
<1> QED BY <1>1, <1>2, <1>3, <1>4, <1>5 DEF TimersNext

\* What the invariant says of the timers.
LEMMA TmInvIs == TmInv => TimersInv
<1> SUFFICES ASSUME TmInv PROVE TimersInv OBVIOUS
<1>1. Timers = {j \in Slots : slot[j].odp} /\ IsFiniteSet(Timers) /\ Timers \in SUBSET Slots
  BY TimersIs DEF TmInv
<1>2. InShared \subseteq Timers BY DEF InShared, Timers
<1>3. Shared \in BOOLEAN /\ SharedSize \in Nat BY TimersAssumption
<1>4. ASSUME NEW j \in Timers PROVE slot[j].pool = (IF Shared THEN "shared" ELSE "own")
  BY <1>1 DEF TmInv, SlotsOK, SlotNumbers
<1>5. SharedPoolOutlivesTimers
  <2>1. InShared # {} => Shared /\ Timers # {} BY <1>2, <1>4 DEF InShared
  <2> QED BY <2>1 DEF TmInv, CountsOK, SharedPoolOutlivesTimers
<1>6. ReservedByTimers BY DEF TmInv, CountsOK, ReservedByTimers, Res
<1>7. ReservationHonoured
  <2> SUFFICES ASSUME NEW i \in Timers, handles[i] < slot[i].reserve PROVE PoolLeft(i) > 0
    BY DEF ReservationHonoured
  <2>1. handles \in [Slots -> Nat] /\ Res \in [Slots -> Nat] /\ slot[i].reserve \in Nat /\ i \in Slots
    BY <1>1 DEF TmInv, TimersTypeOK, Res
  <2>2. CASE ~Shared BY <1>4, <2>1, <2>2 DEF PoolLeft
  <2>3. CASE Shared
    <3>1. InShared = Timers BY <1>2, <1>4, <2>3 DEF InShared, Timers
    <3>2. \A j \in Timers : handles[j] <= Res[j] BY <1>1 DEF TmInv, SlotsOK, SlotNumbers, Res
    <3>3. handles[i] < Res[i] BY <2>1 DEF Res
    <3>4. SumFor(handles, Timers) < SumFor(Res, Timers) BY <1>1, <2>1, <3>2, <3>3, SumLess
    <3>5. SumFor(Res, Timers) <= SharedSize BY <2>3 DEF TmInv, CountsOK, TimersTypeOK
    <3>6. SumFor(handles, Timers) \in Nat /\ SumFor(Res, Timers) \in Nat BY <1>1, <2>1, UnitsFinite
    <3>7. PoolLeft(i) = SharedSize - SumFor(handles, Timers) BY <1>4, <2>3, <3>1 DEF PoolLeft
    <3> QED BY <1>3, <3>4, <3>5, <3>6, <3>7
  <2> QED BY <1>3, <2>2, <2>3
<1> QED BY <1>5, <1>6, <1>7 DEF TmInv, TimersInv

\* The handles that a timer has reserved are there for it whatever other timers
\* do (em_tmo_create()), the shared handle pool outlives the timers that use it
\* (em_timer_delete()), and what is counted and reserved is that of the timers
\* that exist: for any number of timers and any reservations, when starting a
\* timer pool does not fail and rings stay within their num_tmo.
THEOREM TimersCorrect ==
  ASSUME "start" \notin MayFail, RingWithin PROVE TimersSpec => []TimersInv
<1>1. TimersInit => TmInv BY TmInitIs
<1>2. TmInv /\ [TimersNext]_tvars => TmInv' BY TmStepIs
<1>3. TmInv => TimersInv BY TmInvIs
<1> QED BY <1>1, <1>2, <1>3, PTL DEF TimersSpec
=============================================================================
