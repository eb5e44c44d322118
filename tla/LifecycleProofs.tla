-------------------------- MODULE LifecycleProofs --------------------------
(***************************************************************************)
(* The safety properties of Lifecycle, for any number of threads, queue    *)
(* groups and events, of starts of cores and of em_init().                 *)
(*                                                                         *)
(* em_term() reaches all events because a core that has ended has left     *)
(* none with itself and keeps no atomic context (ThreadInv, CtxInv), and   *)
(* it can be retried because one that failed has stopped before or after   *)
(* it has given back the control queues, with all events in their pool     *)
(* (EmInv).  A core that terminates flushes what is its own because it is  *)
(* paused until it is in no group but those it has locked, and nobody      *)
(* joins a group that is locked (GroupInv).                                *)
(***************************************************************************)
EXTENDS Lifecycle, FiniteSetTheorems, SequenceTheorems, WellFoundedInduction, TLAPS

\* Cores are on threads of their own, and em_term() fails at the pools at most.
Orderly == ~SameThread /\ TermFails \subseteq {"pool"}

\* Where an event can be.
Places ==
  {InPool} \cup {InQueue(g) : g \in QGroups}
    \cup UNION {{Prefetched(t), Local(t), Ctrl(t)} : t \in Thr}

TypeInv ==
  /\ LifecycleTypeOK
  /\ \A e \in Evs : at[e] \in Places
  /\ flag \in [Thr \cup {MainThr} -> BOOLEAN] /\ odpPaused \in [Thr \cup {MainThr} -> BOOLEAN]

\* A core ends with no event prefetched and none in its local queues, and is
\* paused in ODP but for its time as a dispatcher and the flush of its orphans.
ThreadInv ==
  \A t \in Thr :
    /\ life[t] \notin {"up", "flush"} => Found(Prefetched(t)) = {}
    /\ life[t] \notin {"up", "flush", "local"} => Found(Local(t)) = {}
    /\ life[t] \in {"flush", "local", "leave", "again", "unlock"} => odpPaused[t]
    /\ life[t] = "orphans" => ~odpPaused[t]
    /\ life[t] = "up" /\ odpPaused[t] => flag[t]

\* An atomic context belongs to a core that schedules or flushes, and to one of
\* the group unless it was taken out of the group while it had an event of it.
CtxInv ==
  \A g \in QGroups : actx[g] \in Thr =>
    /\ life[actx[g]] \in {"up", "flush", "orphans"}
    /\ QuietMoves => actx[g] \in qmask[g]

\* The core has passed the group in queue_group_leave_all().
Passed(t, g) ==
  \/ life[t] \in {"orphans", "pause", "again", "unlock", "down"}
  \/ life[t] = "leave" /\ g < gi[t]

\* Whoever has a group locked is its last core, and a core that has passed a
\* group is in it only if it has it locked.
GroupInv ==
  /\ qmem = qmask
  /\ \A g \in QGroups, t \in Thr : qlock[g] = t =>
       qmask[g] = {t} /\ Passed(t, g) /\ life[t] # "down"
  /\ \A g \in QGroups, t \in Thr : t \in qmask[g] /\ Passed(t, g) => qlock[g] = t
  /\ \A t \in Thr : life[t] \in {"orphans", "pause", "again", "unlock"} => Locked(t) # {}
  /\ \A t \in Thr : life[t] = "leave" => gi[t] >= 1

\* Events to be flushed are in the queues of locked groups, and none is there
\* any more when the flush has ended, unless a context is kept out of its reach.
DueInv ==
  /\ \A e \in due : \E g \in QGroups : at[e] = InQueue(g) /\ qlock[g] \in Thr
  /\ QuietMoves => \A t \in Thr, g \in QGroups :
       life[t] \in {"pause", "again", "unlock"} /\ qlock[g] = t => due \cap Found(InQueue(g)) = {}

\* What em_init() has taken, and what is left of it when em_term() fails at the
\* pools.
AllSteps == {"libconfig", "pool", "event_group", "queue", "queue_group", "ctrl"}
Rest == AllSteps \ {"ctrl", "libconfig"}

EmInv ==
  /\ em.init => em.shm /\ em.held \in {AllSteps, Rest}
  /\ em.init /\ em.held = Rest => AllDown /\ \A e \in Evs : at[e] = InPool
  /\ flag[MainThr] = odpPaused[MainThr]
  /\ ~leaked /\ ~twice

\* The inductive invariant.
IInv == TypeInv /\ ThreadInv /\ CtxInv /\ GroupInv /\ DueInv /\ EmInv

-----------------------------------------------------------------------------
(* Places, steps and groups. *)

\* An event is in one place only.
LEMMA PlacesDiffer ==
  /\ \A g, h : InQueue(g) = InQueue(h) => g = h
  /\ \A t, u : Prefetched(t) = Prefetched(u) \/ Local(t) = Local(u) \/ Ctrl(t) = Ctrl(u) => t = u
  /\ \A g, t : /\ InQueue(g) # InPool /\ Prefetched(t) # InPool /\ Local(t) # InPool
               /\ Ctrl(t) # InPool
  /\ \A g, t : InQueue(g) # Prefetched(t) /\ InQueue(g) # Local(t) /\ InQueue(g) # Ctrl(t)
  /\ \A t, u : /\ Prefetched(t) # Local(u) /\ Prefetched(t) # Ctrl(u) /\ Local(t) # Ctrl(u)
BY DEF InPool, InQueue, Prefetched, Local, Ctrl

\* Types of the places.
LEMMA PlacesType ==
  /\ InPool \in Places
  /\ \A g \in QGroups : InQueue(g) \in Places
  /\ \A t \in Thr : Prefetched(t) \in Places /\ Local(t) \in Places /\ Ctrl(t) \in Places
BY DEF Places

\* Every event is somewhere.
LEMMA Somewhere ==
  ASSUME NEW p \in Places
  PROVE  \/ p = InPool \/ \E g \in QGroups : p = InQueue(g)
         \/ \E t \in Thr : p = Prefetched(t) \/ p = Local(t) \/ p = Ctrl(t)
BY DEF Places

\* The flushes, and what follows each of them.
LEMMA Flushes ==
  /\ DOMAIN AfterFlush = {"flush", "orphans", "again"}
  /\ AfterFlush["flush"] = "local" /\ AfterFlush["orphans"] = "pause"
  /\ AfterFlush["again"] = "unlock"
BY DEF AfterFlush

\* The groups are numbered.
LEMMA Groups ==
  /\ Cardinality(QGroups) \in Nat
  /\ \A g \in QGroups : g \in Nat /\ g >= 1 /\ g <= Cardinality(QGroups)
  /\ \A n \in 0..Cardinality(QGroups) + 1 : n >= 1 /\ n \notin QGroups => n > Cardinality(QGroups)
<1>1. Cardinality(QGroups) \in Nat BY LifecycleAssumption, FS_CardinalityType
<1>2. QGroups = 1..Cardinality(QGroups) BY LifecycleAssumption
<1> DEFINE n == Cardinality(QGroups)
<1>3. n \in Nat /\ QGroups = 1..n BY <1>1, <1>2
<1> HIDE DEF n
<1>4. \A g \in QGroups : g \in Nat /\ g >= 1 /\ g <= n BY <1>3
<1>5. \A k \in 0..n + 1 : k >= 1 /\ k \notin QGroups => k > n BY <1>3
<1> QED BY <1>3, <1>4, <1>5 DEF n

\* The first group of a list.
LEMMA FirstGroup ==
  ASSUME NEW S \in SUBSET QGroups, S # {}
  PROVE  Min(S) \in S
<1>1. IsWellFoundedOn(OpToRel(<, Nat), Nat) BY NatLessThanWellFounded
<1>2. S \in SUBSET Nat BY Groups
<1>3. PICK x \in S : \A y \in S : ~(<<y, x>> \in OpToRel(<, Nat)) BY <1>1, <1>2, WFMin
<1>4. \A y \in S : ~(y < x) BY <1>2, <1>3 DEF OpToRel
<1>5. \A y \in S : x <= y BY <1>2, <1>4
<1> QED BY <1>5 DEF Min

-----------------------------------------------------------------------------
(* The initial state. *)

\* Nothing is started, and all is with em_term().
LEMMA InitOK == LifecycleInit => IInv
<1> SUFFICES ASSUME LifecycleInit PROVE IInv OBVIOUS
<1> USE DEF LifecycleInit
<1>1. TypeInv
  <2>1. LifecycleTypeOK BY Groups DEF LifecycleTypeOK
  <2> QED BY <2>1, PlacesType DEF TypeInv
<1>2. ThreadInv BY PlacesDiffer DEF ThreadInv, Found
<1>3. CtxInv BY LifecycleAssumption DEF CtxInv
<1>4. GroupInv BY LifecycleAssumption DEF GroupInv
<1>5. DueInv BY DEF DueInv
<1>6. EmInv BY DEF EmInv
<1> QED BY <1>1, <1>2, <1>3, <1>4, <1>5, <1>6 DEF IInv

-----------------------------------------------------------------------------
(* em_init() and the life of a core. *)

\* A step that leaves threads and events alone.
LEMMA ThreadsSame ==
  ASSUME ThreadInv, UNCHANGED <<life, at, flag, odpPaused>> PROVE ThreadInv'
BY DEF ThreadInv, Found

\* A step that leaves contexts and groups alone.
LEMMA CtxSame ==
  ASSUME CtxInv, UNCHANGED <<actx, qmask, life>> PROVE CtxInv'
BY DEF CtxInv

\* A step that leaves groups and the loop over them alone.
LEMMA GroupsSame ==
  ASSUME GroupInv, UNCHANGED <<life, gi, qmask, qmem, qlock>> PROVE GroupInv'
BY DEF GroupInv, Passed, Locked

\* A step that leaves the events to be flushed alone.
LEMMA DueSame ==
  ASSUME DueInv, UNCHANGED <<life, due, at, qlock>> PROVE DueInv'
BY DEF DueInv, Found

\* A step that leaves em_init() and its thread alone; cores and events are alone
\* already if em_term() has failed.
LEMMA EmSame ==
  ASSUME EmInv, LifecycleTypeOK, UNCHANGED <<em, leaked, twice>>,
         flag'[MainThr] = flag[MainThr], odpPaused'[MainThr] = odpPaused[MainThr],
         em.init /\ "ctrl" \notin em.held => UNCHANGED <<life, at>>
  PROVE  EmInv'
BY DEF EmInv, AllSteps, Rest, AllDown

\* What the first steps of em_init() take is of what all take.
LEMMA Steps ==
  /\ ToSet(InitSteps) = AllSteps
  /\ Len(InitSteps) = 6 /\ SubSeq(InitSteps, 1, 6) = InitSteps
  /\ \A n \in 0..6 : ToSet(SubSeq(InitSteps, 1, n)) \subseteq AllSteps
<1>1. InitSteps \in Seq(AllSteps) /\ Len(InitSteps) = 6 BY DEF InitSteps, AllSteps
<1>0. \A i \in 1..6 : InitSteps[i] \in AllSteps BY DEF InitSteps, AllSteps
<1>2. ToSet(InitSteps) = AllSteps
  <2>1. DOMAIN InitSteps = 1..6 BY <1>1, LenProperties
  <2>2. \A x \in AllSteps : \E i \in 1..6 : InitSteps[i] = x
    <3>1. /\ InitSteps[1] = "libconfig" /\ InitSteps[2] = "pool" /\ InitSteps[3] = "event_group"
          /\ InitSteps[4] = "queue" /\ InitSteps[5] = "queue_group" /\ InitSteps[6] = "ctrl"
      BY DEF InitSteps
    <3> QED BY <3>1 DEF AllSteps
  <2> QED BY <1>0, <2>1, <2>2 DEF ToSet
<1>3. ASSUME NEW n \in 0..6
      PROVE  /\ ToSet(SubSeq(InitSteps, 1, n)) \subseteq AllSteps
             /\ DOMAIN SubSeq(InitSteps, 1, n) = 1..n
             /\ \A i \in 1..n : SubSeq(InitSteps, 1, n)[i] = InitSteps[i]
  <2> DEFINE u == SubSeq(InitSteps, 1, n)
  <2>1. u \in Seq(AllSteps) /\ Len(u) = n /\ \A i \in 1..n : u[i] = InitSteps[i]
    <3>1. \A i \in 1..n : InitSteps[i] \in AllSteps BY <1>0
    <3>2. /\ u \in Seq(AllSteps) /\ Len(u) = (IF 1 <= n THEN n - 1 + 1 ELSE 0)
          /\ \A i \in 1..(n - 1 + 1) : u[i] = InitSteps[1 + i - 1]
      BY <3>1, SubSeqProperties
    <3> HIDE DEF u
    <3> QED BY <3>2
  <2>2. DOMAIN u = 1..n BY <2>1, LenProperties
  <2> HIDE DEF u
  <2>3. ToSet(u) \subseteq ToSet(InitSteps)
    <3>1. DOMAIN InitSteps = 1..6 BY <1>1, LenProperties
    <3> QED BY <2>1, <2>2, <3>1 DEF ToSet
  <2> QED BY <1>2, <2>1, <2>2, <2>3 DEF u
<1>4. SubSeq(InitSteps, 1, 6) = InitSteps
  <2> DEFINE u == SubSeq(InitSteps, 1, 6)
             v == InitSteps
  <2>1. u \in Seq(AllSteps) /\ v \in Seq(AllSteps) /\ Len(u) = Len(v)
    <3> QED BY <1>0, <1>1, SubSeqProperties
  <2>2. \A i \in 1..Len(u) : u[i] = v[i] BY <1>1, <1>3, <2>1
  <2> HIDE DEF u, v
  <2>3. u = v BY <2>1, <2>2, SeqEqual
  <2> QED BY <2>3 DEF u, v
<1> QED BY <1>1, <1>2, <1>3, <1>4

\* Events to be flushed are with no core.
LEMMA DueWaits ==
  ASSUME TypeInv, DueInv
  PROVE  /\ due \subseteq Evs
         /\ \A f \in due : \A t : at[f] \notin {InPool, Prefetched(t), Local(t), Ctrl(t)}
<1>1. due \subseteq Evs BY DEF TypeInv, LifecycleTypeOK
<1>2. ASSUME NEW f \in due, NEW t PROVE at[f] \notin {InPool, Prefetched(t), Local(t), Ctrl(t)}
  <2>1. PICK g : at[f] = InQueue(g) BY DEF DueInv
  <2> QED BY <2>1, PlacesDiffer
<1> QED BY <1>1, <1>2

\* em_init(), also one that fails and unwinds.
LEMMA EmInitOK ==
  ASSUME IInv, NEW n \in 0..Len(InitSteps), EmInit(n) PROVE IInv'
<1> USE DEF IInv, EmInit
<1>1. TypeInv'
  <2>1. em' \in [shm : BOOLEAN, init : BOOLEAN, held : SUBSET ToSet(InitSteps)] BY Steps
  <2> QED BY <2>1 DEF TypeInv, LifecycleTypeOK, grpvars
<1>2. ThreadInv' BY ThreadsSame
<1>3. CtxInv' BY CtxSame DEF grpvars
<1>4. GroupInv' BY GroupsSame DEF grpvars
<1>5. DueInv' BY DueSame DEF grpvars
<1>6. EmInv'
  <2>1. em'.init => em'.shm /\ em'.held = AllSteps BY Steps
  <2>2. AllSteps # Rest BY DEF AllSteps, Rest
  <2> QED BY <2>1, <2>2 DEF EmInv
<1> QED BY <1>1, <1>2, <1>3, <1>4, <1>5, <1>6

\* em_init_core(): the core is up in no group yet.
LEMMA StartOK ==
  ASSUME IInv, Orderly, NEW t \in Thr, Start(t) PROVE IInv'
<1> USE DEF IInv, Start
<1>1. TypeInv' BY LifecycleAssumption DEF TypeInv, LifecycleTypeOK
<1>2. ThreadInv' BY DEF ThreadInv, TypeInv, LifecycleTypeOK, Found, Orderly
<1>3. CtxInv' BY DEF CtxInv, TypeInv, LifecycleTypeOK
<1>4. GroupInv' BY LifecycleAssumption DEF GroupInv, TypeInv, LifecycleTypeOK, Passed, Locked
<1>5. DueInv' BY DEF DueInv, TypeInv, LifecycleTypeOK, Found
<1>6. EmInv' BY LifecycleAssumption, EmSame DEF EmInv, TypeInv
<1> QED BY <1>1, <1>2, <1>3, <1>4, <1>5, <1>6

\* The groups change by the control events: no locked group is joined.
LEMMA AssignOK ==
  ASSUME IInv, Orderly, NEW g \in QGroups, NEW m \in SUBSET Thr, Assign(g, m) PROVE IInv'
<1> USE DEF IInv, Assign, history
<1>1. TypeInv' BY DEF TypeInv, LifecycleTypeOK
<1>2. ThreadInv' BY ThreadsSame
<1>3. CtxInv'
  <2> SUFFICES ASSUME NEW h \in QGroups, actx[h] \in Thr, QuietMoves PROVE actx[h] \in qmask'[h]
    BY DEF CtxInv
  <2> QED BY DEF CtxInv, TypeInv, LifecycleTypeOK, Orderly
<1>4. GroupInv'
  <2>1. \A h \in QGroups, t \in Thr : qlock[h] # t BY DEF GroupInv, Passed
  <2>2. \A h \in QGroups, t \in Thr : t \in qmask'[h] => ~Passed(t, h)
    BY <2>1 DEF GroupInv, Passed, TypeInv, LifecycleTypeOK
  <2>3. \A h, t : Passed(t, h)' <=> Passed(t, h) BY DEF Passed
  <2>4. \A t \in Thr : life[t] \in {"up", "down"} OBVIOUS
  <2>5. qmem' = qmask' BY DEF GroupInv
  <2> QED BY <2>1, <2>2, <2>3, <2>4, <2>5 DEF GroupInv
<1>5. DueInv' BY DueSame
<1>6. EmInv' BY EmSame DEF TypeInv
<1> QED BY <1>1, <1>2, <1>3, <1>4, <1>5, <1>6

\* A core that dispatches sends.
LEMMA SendOK ==
  ASSUME IInv, Orderly, NEW t \in Thr, NEW e \in Evs, Send_to(t, e) PROVE IInv'
<1> USE DEF IInv, Send_to, history
<1>1. PICK p : /\ p \in {InQueue(g) : g \in WithQueues} \cup {Local(t)} \cup {Ctrl(u) : u \in Thr}
               /\ at' = Moved({e}, p)
  OBVIOUS
<1>2. p \in Places BY <1>1, PlacesType, LifecycleAssumption
<1>3. \A f \in Evs : at'[f] = IF f = e THEN p ELSE at[f] BY <1>1 DEF Moved
<1>4. TypeInv' BY <1>1, <1>2, <1>3 DEF TypeInv, LifecycleTypeOK, Moved, grpvars
<1>5. ThreadInv'
  <2>1. \A u \in Thr : p # Prefetched(u) /\ (u # t => p # Local(u)) BY <1>1, PlacesDiffer
  <2>2. \A u \in Thr : /\ Found(Prefetched(u))' = Found(Prefetched(u))
                       /\ u # t => Found(Local(u))' = Found(Local(u))
    BY <1>3, <2>1, PlacesDiffer DEF Found
  <2> QED BY <2>2 DEF ThreadInv
<1>6. CtxInv' BY CtxSame DEF grpvars
<1>7. GroupInv' BY GroupsSame DEF grpvars
<1>8. DueInv'
  <2>1. e \notin due BY PlacesDiffer DEF DueInv
  <2>2. \A f \in due : at'[f] = at[f] BY <1>3, <2>1 DEF TypeInv, LifecycleTypeOK
  <2>3. \A q : due \cap Found(q)' = due \cap Found(q) BY <2>2 DEF Found
  <2> QED BY <2>2, <2>3 DEF DueInv, grpvars
<1>9. EmInv' BY EmSame DEF EmInv, TypeInv, AllDown, Rest, AllSteps
<1> QED BY <1>4, <1>5, <1>6, <1>7, <1>8, <1>9

\* The scheduler gives a burst to a core of the group.
LEMMA PrefetchOK ==
  ASSUME IInv, Orderly, NEW t \in Thr, NEW g \in QGroups, NEW B \in SUBSET Evs, Prefetch(t, g, B)
  PROVE  IInv'
<1> USE DEF IInv, Prefetch, history
<1>1. \A f \in Evs : at'[f] = IF f \in B THEN Prefetched(t) ELSE at[f] BY DEF Moved
<1>2. \A f \in B : at[f] = InQueue(g) BY DEF Found
<1>3. \A h \in QGroups : actx'[h] = IF h = g THEN t ELSE IF actx[h] = t THEN NoThr ELSE actx[h]
  BY DEF CtxReleased
<1>4. TypeInv' BY <1>1, <1>3, PlacesType DEF TypeInv, LifecycleTypeOK, Moved, grpvars, CtxReleased
<1>5. ThreadInv'
  <2>1. \A u \in Thr : /\ u # t => Found(Prefetched(u))' = Found(Prefetched(u))
                       /\ Found(Local(u))' = Found(Local(u))
    BY <1>1, <1>2, PlacesDiffer DEF Found
  <2> QED BY <2>1 DEF ThreadInv
<1>6. CtxInv'
  <2>1. t \in qmask[g] BY DEF Schedulable, GroupInv
  <2> QED BY <1>3, <2>1, LifecycleAssumption DEF CtxInv, grpvars
<1>7. GroupInv' BY GroupsSame DEF grpvars
<1>8. DueInv'
  <2>1. \A f \in due' : f \in due /\ at'[f] = at[f] BY <1>1 DEF TypeInv, LifecycleTypeOK
  <2>2. \A h : due' \cap Found(InQueue(h))' \subseteq due \cap Found(InQueue(h)) BY <2>1 DEF Found
  <2> QED BY <2>1, <2>2 DEF DueInv, grpvars
<1>9. EmInv' BY EmSame DEF EmInv, TypeInv, AllDown, Rest, AllSteps
<1> QED BY <1>4, <1>5, <1>6, <1>7, <1>8, <1>9

\* An event is handled.
LEMMA HandleOK ==
  ASSUME IInv, Orderly, NEW t \in Thr, Handle(t) PROVE IInv'
<1> USE DEF IInv, Handle, history
<1>1. \A h \in QGroups : actx'[h] = actx[h] \/ (actx[h] = t /\ actx'[h] = NoThr) BY DEF CtxReleased
<1>2. /\ DOMAIN at' = Evs
      /\ \A f \in Evs : \/ at'[f] = at[f]
                        \/ at'[f] = InPool /\ at[f] \in {Prefetched(t), Local(t), Ctrl(t)}
  BY DEF Returned, Moved, Found, TypeInv, LifecycleTypeOK
<1>4. TypeInv'
  <2>1. actx' \in [QGroups -> Thr \cup {NoThr}] BY DEF CtxReleased, TypeInv, LifecycleTypeOK
  <2> QED BY <1>2, <2>1, PlacesType DEF TypeInv, LifecycleTypeOK, grpvars
<1>5. ThreadInv'
  <2>1. \A u \in Thr : /\ Found(Prefetched(u))' \subseteq Found(Prefetched(u))
                       /\ Found(Local(u))' \subseteq Found(Local(u))
    BY <1>2, PlacesDiffer DEF Found
  <2> QED BY <2>1 DEF ThreadInv
<1>6. CtxInv' BY <1>1, LifecycleAssumption DEF CtxInv, grpvars
<1>7. GroupInv' BY GroupsSame DEF grpvars
<1>8. DueInv'
  <2>1. \A f \in due : at'[f] = at[f] BY <1>2, DueWaits
  <2>2. \A q : due \cap Found(q)' = due \cap Found(q) BY <2>1 DEF Found, TypeInv, LifecycleTypeOK
  <2> QED BY <2>1, <2>2 DEF DueInv, grpvars
<1>9. EmInv' BY EmSame DEF EmInv, TypeInv, AllDown, Rest, AllSteps
<1> QED BY <1>4, <1>5, <1>6, <1>7, <1>8, <1>9

\* A dispatch of given rounds ends: the scheduler is paused.
LEMMA PauseDispatchOK ==
  ASSUME IInv, Orderly, NEW t \in Thr, PauseDispatch(t) PROVE IInv'
<1> USE DEF IInv, PauseDispatch, history
<1>1. \A h \in QGroups : actx'[h] = actx[h] \/ actx'[h] = NoThr BY DEF CtxReleased
<1>2. TypeInv' BY DEF TypeInv, LifecycleTypeOK, CtxReleased, grpvars
<1>3. ThreadInv' BY DEF ThreadInv, Found, TypeInv, LifecycleTypeOK
<1>4. CtxInv' BY <1>1, LifecycleAssumption DEF CtxInv, grpvars
<1>5. GroupInv' BY GroupsSame DEF grpvars
<1>6. DueInv' BY DueSame DEF grpvars
<1>7. EmInv' BY LifecycleAssumption, EmSame DEF EmInv, TypeInv
<1> QED BY <1>2, <1>3, <1>4, <1>5, <1>6, <1>7

\* The next dispatch resumes the scheduler.
LEMMA ResumeDispatchOK ==
  ASSUME IInv, Orderly, NEW t \in Thr, ResumeDispatch(t) PROVE IInv'
<1> USE DEF IInv, ResumeDispatch, history
<1>1. TypeInv' BY DEF TypeInv, LifecycleTypeOK, grpvars
<1>2. ThreadInv' BY DEF ThreadInv, Found, TypeInv, LifecycleTypeOK
<1>3. CtxInv' BY CtxSame DEF grpvars
<1>4. GroupInv' BY GroupsSame DEF grpvars
<1>5. DueInv' BY DueSame DEF grpvars
<1>6. EmInv' BY LifecycleAssumption, EmSame DEF EmInv, TypeInv
<1> QED BY <1>1, <1>2, <1>3, <1>4, <1>5, <1>6

\* em_term_core() starts.
LEMMA TermCoreOK ==
  ASSUME IInv, Orderly, NEW t \in Thr, term_core(t) PROVE IInv'
<1> USE DEF IInv, term_core, history
<1>1. TypeInv' BY Flushes DEF TypeInv, LifecycleTypeOK, grpvars
<1>2. ThreadInv' BY DEF ThreadInv, Found, TypeInv, LifecycleTypeOK
<1>3. CtxInv' BY DEF CtxInv, grpvars, TypeInv, LifecycleTypeOK
<1>4. GroupInv' BY DEF GroupInv, Passed, Locked, grpvars, TypeInv, LifecycleTypeOK
<1>5. DueInv' BY DEF DueInv, Found, grpvars, TypeInv, LifecycleTypeOK
<1>6. EmInv' BY LifecycleAssumption, EmSame DEF EmInv, TypeInv, AllDown, Rest, AllSteps
<1> QED BY <1>1, <1>2, <1>3, <1>4, <1>5, <1>6

-----------------------------------------------------------------------------
(* em_term_local() of a core. *)

\* A flush takes what is prefetched; or events of a group that the core has
\* locked, when it is about the orphans; or it has ended and nothing is left.
LEMMA FlushCases ==
  ASSUME IInv, Orderly, NEW t \in Thr, flush_scheduler_events(t)
  PROVE  \/ /\ life[t] = "flush" /\ at' = Returned(Found(Prefetched(t)))
            /\ UNCHANGED <<life, actx, due>>
         \/ /\ life[t] = "orphans" /\ UNCHANGED life
            /\ \E g \in Locked(t) : \E B \in SUBSET Found(InQueue(g)) :
                 /\ at' = Returned(B) /\ due' = due \ B
                 /\ actx' = [CtxReleased(t) EXCEPT ![g] = t]
         \/ /\ life' = [life EXCEPT ![t] = AfterFlush[@]] /\ actx' = CtxReleased(t)
            /\ Found(Prefetched(t)) = {} /\ UNCHANGED <<at, due>>
            /\ QuietMoves /\ life[t] = "orphans" => \A g \in Locked(t) : Found(InQueue(g)) = {}
<1> USE DEF flush_scheduler_events
<1>1. CASE Found(Prefetched(t)) # {}
  <2>1. life[t] = "flush" BY <1>1, Flushes DEF IInv, ThreadInv
  <2> QED BY <1>1, <2>1
<1>2. CASE Found(Prefetched(t)) = {} /\ Schedulable(t) # {}
  <2>1. PICK g \in Schedulable(t), B \in SUBSET Evs :
          /\ B \subseteq Found(InQueue(g)) /\ at' = Returned(B)
          /\ actx' = [CtxReleased(t) EXCEPT ![g] = t] /\ due' = due \ B /\ UNCHANGED life
    BY <1>2
  <2>2. g \in QGroups /\ t \in qmask[g] /\ ~odpPaused[t] BY <2>1 DEF Schedulable, IInv, GroupInv
  <2>3. life[t] = "orphans" BY <2>2, Flushes DEF IInv, ThreadInv
  <2>4. g \in Locked(t) BY <2>2, <2>3 DEF IInv, GroupInv, Passed, Locked
  <2> QED BY <2>1, <2>3, <2>4
<1>3. CASE Found(Prefetched(t)) = {} /\ Schedulable(t) = {}
  <2>1. ASSUME QuietMoves, life[t] = "orphans", NEW g \in Locked(t) PROVE Found(InQueue(g)) = {}
    <3>1. g \in QGroups /\ qlock[g] = t BY DEF Locked
    <3>2. qmask[g] = {t} /\ t \in qmem[g] BY <3>1 DEF IInv, GroupInv
    <3>3. actx[g] \in {NoThr, t} BY <2>1, <3>1, <3>2 DEF IInv, CtxInv, TypeInv, LifecycleTypeOK
    <3>4. ~odpPaused[t] BY <2>1 DEF IInv, ThreadInv
    <3> QED BY <1>3, <3>1, <3>2, <3>3, <3>4 DEF Schedulable
  <2> QED BY <1>3, <2>1
<1> QED BY <1>1, <1>2, <1>3

\* One call of the flush, in each of the places that make it.
LEMMA FlushOK ==
  ASSUME IInv, Orderly, NEW t \in Thr, flush_scheduler_events(t) PROVE IInv'
<1>0. UNCHANGED <<em, gi, qmask, qmem, qlock, flag, odpPaused, leaked, twice, starts, inits>>
      /\ life[t] \in {"flush", "orphans", "again"}
  BY Flushes DEF flush_scheduler_events, grpvars, history
<1>1. CASE /\ life[t] = "flush" /\ at' = Returned(Found(Prefetched(t)))
           /\ UNCHANGED <<life, actx, due>>
  <2>1. /\ DOMAIN at' = Evs
        /\ \A f \in Evs : at'[f] = at[f] \/ (at'[f] = InPool /\ at[f] = Prefetched(t))
    BY <1>1 DEF Returned, Moved, Found
  <2>2. TypeInv' BY <1>0, <1>1, <2>1, PlacesType DEF IInv, TypeInv, LifecycleTypeOK
  <2>3. ThreadInv'
    <3>1. \A u \in Thr : /\ Found(Prefetched(u))' \subseteq Found(Prefetched(u))
                         /\ Found(Local(u))' \subseteq Found(Local(u))
      BY <2>1, PlacesDiffer DEF Found
    <3> QED BY <1>0, <1>1, <3>1 DEF IInv, ThreadInv
  <2>4. CtxInv' BY <1>0, <1>1, CtxSame DEF IInv
  <2>5. GroupInv' BY <1>0, <1>1, GroupsSame DEF IInv
  <2>6. DueInv'
    <3>1. \A f \in due : at'[f] = at[f] BY <2>1, DueWaits DEF IInv
    <3>2. \A q : due \cap Found(q)' = due \cap Found(q)
      BY <3>1 DEF Found, IInv, TypeInv, LifecycleTypeOK
    <3> QED BY <1>0, <1>1, <3>1, <3>2 DEF IInv, DueInv
  <2>7. EmInv' BY <1>0, <1>1, EmSame DEF IInv, EmInv, TypeInv, AllDown, Rest, AllSteps
  <2> QED BY <2>2, <2>3, <2>4, <2>5, <2>6, <2>7 DEF IInv
<1>2. ASSUME life[t] = "orphans", UNCHANGED life, NEW g \in Locked(t),
             NEW B \in SUBSET Found(InQueue(g)),
             at' = Returned(B), due' = due \ B, actx' = [CtxReleased(t) EXCEPT ![g] = t]
      PROVE  IInv'
  <2>1. /\ DOMAIN at' = Evs /\ B \subseteq Evs
        /\ \A f \in Evs : at'[f] = IF f \in B THEN InPool ELSE at[f]
        /\ \A f \in B : at[f] = InQueue(g)
    BY <1>2 DEF Returned, Moved, Found
  <2>2. \A h \in QGroups : actx'[h] = IF h = g THEN t ELSE IF actx[h] = t THEN NoThr ELSE actx[h]
    BY <1>2 DEF CtxReleased
  <2>3. g \in QGroups /\ t \in qmask[g] BY DEF Locked, IInv, GroupInv
  <2>4. TypeInv'
    <3>1. actx' \in [QGroups -> Thr \cup {NoThr}]
      BY <1>2, <2>3 DEF CtxReleased, IInv, TypeInv, LifecycleTypeOK
    <3>2. due' \subseteq Evs BY <1>2 DEF IInv, TypeInv, LifecycleTypeOK
    <3> QED BY <1>0, <1>2, <2>1, <3>1, <3>2, PlacesType DEF IInv, TypeInv, LifecycleTypeOK
  <2>5. ThreadInv'
    <3>1. \A u \in Thr : /\ Found(Prefetched(u))' \subseteq Found(Prefetched(u))
                         /\ Found(Local(u))' \subseteq Found(Local(u))
      BY <2>1, PlacesDiffer DEF Found
    <3> QED BY <1>0, <1>2, <3>1 DEF IInv, ThreadInv
  <2>6. CtxInv' BY <1>0, <1>2, <2>2, <2>3, LifecycleAssumption DEF IInv, CtxInv
  <2>7. GroupInv' BY <1>0, <1>2, GroupsSame DEF IInv
  <2>8. DueInv'
    <3>1. \A f \in due' : f \in due /\ at'[f] = at[f]
      BY <1>2, <2>1 DEF IInv, TypeInv, LifecycleTypeOK
    <3>2. \A h : due' \cap Found(InQueue(h))' \subseteq due \cap Found(InQueue(h))
      BY <3>1 DEF Found
    <3> QED BY <1>0, <1>2, <3>1, <3>2 DEF IInv, DueInv
  <2>9. EmInv' BY <1>0, <1>2, EmSame DEF IInv, EmInv, TypeInv, AllDown, Rest, AllSteps
  <2> QED BY <2>4, <2>5, <2>6, <2>7, <2>8, <2>9 DEF IInv
<1>3. ASSUME life' = [life EXCEPT ![t] = AfterFlush[@]], actx' = CtxReleased(t),
             Found(Prefetched(t)) = {}, UNCHANGED <<at, due>>,
             QuietMoves /\ life[t] = "orphans" => \A g \in Locked(t) : Found(InQueue(g)) = {}
      PROVE  IInv'
  <2>1. PICK l : l = AfterFlush[life[t]] OBVIOUS
  <2>2. \/ life[t] = "flush" /\ l = "local"
        \/ life[t] = "orphans" /\ l = "pause"
        \/ life[t] = "again" /\ l = "unlock"
    BY <1>0, <2>1, Flushes
  <2>3. life' = [life EXCEPT ![t] = l] BY <1>3, <2>1
  <2>4. \A h \in QGroups : actx'[h] # t /\ (actx'[h] = actx[h] \/ actx'[h] = NoThr)
    BY <1>3, LifecycleAssumption DEF CtxReleased
  <2>5. TypeInv'
    <3>1. actx' \in [QGroups -> Thr \cup {NoThr}]
      BY <1>3 DEF CtxReleased, IInv, TypeInv, LifecycleTypeOK
    <3> QED BY <1>0, <1>3, <2>2, <2>3, <3>1, Flushes DEF IInv, TypeInv, LifecycleTypeOK
  <2>6. ThreadInv' BY <1>0, <1>3, <2>2, <2>3 DEF IInv, ThreadInv, TypeInv, LifecycleTypeOK, Found
  <2>7. CtxInv' BY <1>0, <2>3, <2>4, LifecycleAssumption DEF IInv, CtxInv, TypeInv, LifecycleTypeOK
  <2>8. GroupInv' BY <1>0, <2>2, <2>3 DEF IInv, GroupInv, TypeInv, LifecycleTypeOK, Passed, Locked
  <2>9. DueInv'
    BY <1>0, <1>3, <2>2, <2>3 DEF IInv, DueInv, TypeInv, LifecycleTypeOK, Locked, Found
  <2>10. EmInv' BY <1>0, <1>3, EmSame DEF IInv, EmInv, TypeInv, AllDown, Rest, AllSteps
  <2> QED BY <2>5, <2>6, <2>7, <2>8, <2>9, <2>10 DEF IInv
<1> QED BY <1>1, <1>2, <1>3, FlushCases

\* The local queues of the core are emptied.
LEMMA LocalOK ==
  ASSUME IInv, Orderly, NEW t \in Thr, queue_term_local(t) PROVE IInv'
<1> USE DEF IInv, queue_term_local, history
<1>1. /\ DOMAIN at' = Evs
      /\ \A f \in Evs : /\ at'[f] = at[f] \/ (at'[f] = InPool /\ at[f] = Local(t))
                        /\ at'[f] # Local(t)
  BY PlacesDiffer DEF Returned, Moved, Found
<1>2. TypeInv' BY <1>1, PlacesType, Groups DEF TypeInv, LifecycleTypeOK, grpvars
<1>3. ThreadInv'
  <2>1. \A u \in Thr : /\ Found(Prefetched(u))' \subseteq Found(Prefetched(u))
                       /\ Found(Local(u))' \subseteq Found(Local(u))
    BY <1>1, PlacesDiffer DEF Found
  <2>2. Found(Local(t))' = {} BY <1>1 DEF Found
  <2> QED BY <2>1, <2>2 DEF ThreadInv, TypeInv, LifecycleTypeOK
<1>4. CtxInv' BY DEF CtxInv, grpvars, TypeInv, LifecycleTypeOK
<1>5. GroupInv'
  <2>1. \A g \in QGroups : ~(g < 1) BY Groups
  <2>2. \A u \in Thr : u # t => life'[u] = life[u] /\ gi'[u] = gi[u] OBVIOUS
  <2>3. life'[t] = "leave" /\ gi'[t] = 1 /\ life[t] = "local" BY DEF TypeInv, LifecycleTypeOK
  <2>4. \A u \in Thr, g \in QGroups : Passed(u, g)' <=> Passed(u, g)
    BY <2>1, <2>2, <2>3 DEF Passed
  <2>5. \A u \in Thr : Locked(u)' = Locked(u) BY DEF Locked, grpvars
  <2> QED BY <2>2, <2>3, <2>4, <2>5 DEF GroupInv, grpvars
<1>6. DueInv'
  <2>1. \A f \in due : at'[f] = at[f] BY <1>1, DueWaits
  <2>2. \A q : due \cap Found(q)' = due \cap Found(q) BY <2>1 DEF Found, TypeInv, LifecycleTypeOK
  <2> QED BY <2>1, <2>2 DEF DueInv, grpvars, TypeInv, LifecycleTypeOK
<1>7. EmInv' BY EmSame DEF EmInv, TypeInv, AllDown, Rest, AllSteps
<1> QED BY <1>2, <1>3, <1>4, <1>5, <1>6, <1>7

\* The core leaves a group, or locks it as the last one of it.
LEMMA LeaveNextOK ==
  ASSUME IInv, Orderly, NEW t \in Thr, LeaveNext(t) PROVE IInv'
<1> DEFINE g == gi[t]
<1>1. /\ life[t] = "leave" /\ g \in QGroups /\ qlock[g] = NoThr /\ gi' = [gi EXCEPT ![t] = g + 1]
      /\ UNCHANGED <<em, life, flag, odpPaused, at, actx, due, leaked, twice, starts, inits>>
      /\ \/ /\ qmask[g] = {t} /\ qlock' = [qlock EXCEPT ![g] = t] /\ UNCHANGED <<qmask, qmem>>
         \/ /\ UNCHANGED qlock /\ LeavesGroup(t, g)
         \/ /\ t \notin qmask[g] /\ UNCHANGED <<qlock, qmask, qmem>>
  BY DEF LeaveNext, Orphan, history
<1>2. g \in Nat /\ g + 1 \in 0..Cardinality(QGroups) + 1 BY <1>1, Groups
<1> HIDE DEF g
<1> USE DEF IInv
<1>3. TypeInv'
  <2>1. /\ qmask' \in [QGroups -> SUBSET Thr] /\ qmem' \in [QGroups -> SUBSET Thr]
        /\ qlock' \in [QGroups -> Thr \cup {NoThr}]
    BY <1>1 DEF TypeInv, LifecycleTypeOK, LeavesGroup
  <2> QED BY <1>1, <1>2, <2>1 DEF TypeInv, LifecycleTypeOK
<1>4. ThreadInv' BY <1>1, ThreadsSame
<1>5. CtxInv'
  <2>1. \A h \in QGroups : actx[h] # t BY <1>1 DEF CtxInv
  <2>2. \A h \in QGroups, u \in Thr : u # t /\ u \in qmask[h] => u \in qmask'[h]
    BY <1>1 DEF LeavesGroup, TypeInv, LifecycleTypeOK
  <2> QED BY <1>1, <2>1, <2>2 DEF CtxInv
<1>6. GroupInv'
  <2>1. /\ \A h \in QGroups : h # g => qmask'[h] = qmask[h] /\ qlock'[h] = qlock[h]
        /\ \/ qmask[g] = {t} /\ qmask'[g] = {t} /\ qlock'[g] = t
           \/ qmask'[g] = qmask[g] \ {t} /\ qlock'[g] = NoThr
    BY <1>1 DEF LeavesGroup, TypeInv, LifecycleTypeOK
  <2>2. \A u \in Thr, h \in QGroups :
          Passed(u, h)' <=> Passed(u, h) \/ (u = t /\ h = g)
    <3>1. \A h \in QGroups : h < g + 1 <=> h < g \/ h = g BY <1>2, Groups
    <3>2. \A u \in Thr : gi'[u] = IF u = t THEN g + 1 ELSE gi[u]
      BY <1>1 DEF TypeInv, LifecycleTypeOK
    <3> QED BY <1>1, <3>1, <3>2 DEF Passed, g
  <2>3. \A u \in Thr : life[u] \in {"orphans", "pause", "again", "unlock"} => Locked(u)' # {}
    <3> SUFFICES ASSUME NEW u \in Thr, life[u] \in {"orphans", "pause", "again", "unlock"}
                 PROVE  Locked(u)' # {}
      OBVIOUS
    <3>1. PICK h \in QGroups : qlock[h] = u BY DEF GroupInv, Locked
    <3>2. h # g BY <1>1, <3>1, LifecycleAssumption
    <3> QED BY <2>1, <3>1, <3>2 DEF Locked
  <2>4. qmem' = qmask' BY <1>1 DEF GroupInv, LeavesGroup
  <2>5. gi'[t] >= 1 /\ \A u \in Thr : u # t => gi'[u] = gi[u]
    BY <1>1, <1>2 DEF TypeInv, LifecycleTypeOK
  <2>6. \A h \in QGroups, u \in Thr : qlock'[h] = u =>
          qmask'[h] = {u} /\ Passed(u, h)' /\ life'[u] # "down"
    BY <1>1, <2>1, <2>2, LifecycleAssumption DEF GroupInv
  <2>7. \A h \in QGroups, u \in Thr : u \in qmask'[h] /\ Passed(u, h)' => qlock'[h] = u
    <3> SUFFICES ASSUME NEW h \in QGroups, NEW u \in Thr, u \in qmask'[h], Passed(u, h)'
                 PROVE  qlock'[h] = u
      OBVIOUS
    <3>1. CASE h = g /\ u = t BY <2>1, <3>1
    <3>2. CASE h = g /\ u # t
      <4>1. u \in qmask[g] /\ Passed(u, g) BY <2>1, <2>2, <3>2
      <4> QED BY <1>1, <4>1, LifecycleAssumption DEF GroupInv
    <3>3. CASE h # g BY <2>1, <2>2, <3>3 DEF GroupInv
    <3> QED BY <3>1, <3>2, <3>3
  <2> QED BY <1>1, <2>3, <2>4, <2>5, <2>6, <2>7 DEF GroupInv
<1>7. DueInv'
  <2>1. \A h \in QGroups, u \in Thr : /\ qlock[h] = u => qlock'[h] = u
                                      /\ qlock'[h] = u => qlock[h] = u \/ u = t
    BY <1>1, LifecycleAssumption DEF TypeInv, LifecycleTypeOK
  <2>2. \A q : Found(q)' = Found(q) BY <1>1 DEF Found
  <2> QED BY <1>1, <2>1, <2>2 DEF DueInv
<1>8. EmInv' BY <1>1, EmSame DEF EmInv, TypeInv
<1> QED BY <1>3, <1>4, <1>5, <1>6, <1>7, <1>8

\* All groups are left: there are orphans to flush, or the core is down.
LEMMA EndLeaveOK ==
  ASSUME IInv, Orderly, NEW t \in Thr, EndLeave(t) PROVE IInv'
<1> USE DEF IInv
<1>1. /\ life[t] = "leave"
      /\ UNCHANGED <<em, qmask, qmem, qlock, at, actx, leaked, twice, starts, inits>>
      /\ \A g \in QGroups : Passed(t, g)
  <2>1. gi[t] > Cardinality(QGroups) BY Groups DEF EndLeave, GroupInv, TypeInv, LifecycleTypeOK
  <2>2. \A g \in QGroups : g < gi[t] BY <2>1, Groups DEF TypeInv, LifecycleTypeOK
  <2> QED BY <2>2 DEF EndLeave, history, grpvars, Passed
<1>2. CASE Locked(t) = {} /\ TermDone(t) /\ UNCHANGED <<odpPaused, due>>
  <2> USE <1>1, <1>2 DEF TermDone
  <2>0. \A g \in QGroups : t \notin qmask[g] /\ qlock[g] # t BY DEF GroupInv, Locked
  <2>1. TypeInv' BY Groups DEF TypeInv, LifecycleTypeOK
  <2>2. ThreadInv' BY DEF ThreadInv, Found, TypeInv, LifecycleTypeOK
  <2>3. CtxInv' BY DEF CtxInv, TypeInv, LifecycleTypeOK
  <2>4. GroupInv'
    <3>1. \A u \in Thr : u # t => /\ life'[u] = life[u] /\ gi'[u] = gi[u]
                                  /\ Locked(u)' = Locked(u) /\ \A g : Passed(u, g)' <=> Passed(u, g)
      BY DEF Passed, Locked
    <3>2. life'[t] = "down" BY DEF TypeInv, LifecycleTypeOK
    <3> QED BY <2>0, <3>1, <3>2 DEF GroupInv
  <2>5. DueInv' BY <2>0 DEF DueInv, Found, TypeInv, LifecycleTypeOK
  <2>6. EmInv' BY LifecycleAssumption, EmSame DEF EmInv, TypeInv, AllDown, Rest, AllSteps
  <2> QED BY <2>1, <2>2, <2>3, <2>4, <2>5, <2>6
<1>3. CASE /\ Locked(t) # {} /\ life' = [life EXCEPT ![t] = "orphans"] /\ UNCHANGED gi
           /\ flag' = [flag EXCEPT ![t] = FALSE] /\ odpPaused' = [odpPaused EXCEPT ![t] = FALSE]
           /\ due' = due \cup UNION {Found(InQueue(g)) : g \in Locked(t)}
  <2> USE <1>1, <1>3
  <2>1. TypeInv'
    <3>1. due' \subseteq Evs BY DEF TypeInv, LifecycleTypeOK, Found
    <3> QED BY <3>1, Flushes DEF TypeInv, LifecycleTypeOK
  <2>2. ThreadInv' BY DEF ThreadInv, Found, TypeInv, LifecycleTypeOK
  <2>3. CtxInv' BY DEF CtxInv, TypeInv, LifecycleTypeOK
  <2>4. GroupInv'
    <3>1. \A u \in Thr, g \in QGroups : Passed(u, g)' <=> Passed(u, g)
      BY DEF Passed, TypeInv, LifecycleTypeOK
    <3>2. life'[t] = "orphans" /\ \A u \in Thr : u # t => life'[u] = life[u]
      BY DEF TypeInv, LifecycleTypeOK
    <3>3. \A u \in Thr : Locked(u)' = Locked(u) BY DEF Locked
    <3> QED BY <3>1, <3>2, <3>3 DEF GroupInv
  <2>5. DueInv'
    <3>1. \A e \in due' \ due : \E g \in QGroups : at[e] = InQueue(g) /\ qlock[g] = t
      BY DEF Found, Locked
    <3>2. ASSUME QuietMoves, NEW u \in Thr, NEW g \in QGroups,
                 life'[u] \in {"pause", "again", "unlock"}, qlock[g] = u
          PROVE  due' \cap Found(InQueue(g)) = {}
      <4>1. u # t /\ life[u] \in {"pause", "again", "unlock"} BY <3>2 DEF TypeInv, LifecycleTypeOK
      <4>2. due \cap Found(InQueue(g)) = {} BY <3>2, <4>1 DEF DueInv
      <4>3. ASSUME NEW e \in due' \ due, at[e] = InQueue(g) PROVE FALSE
        <5>1. PICK h \in QGroups : at[e] = InQueue(h) /\ qlock[h] = t BY <3>1
        <5> QED BY <3>2, <4>1, <4>3, <5>1, PlacesDiffer
      <4> QED BY <4>2, <4>3 DEF Found
    <3>3. \A g : Found(InQueue(g))' = Found(InQueue(g)) BY DEF Found
    <3> QED BY <3>1, <3>2, <3>3 DEF DueInv
  <2>6. EmInv' BY LifecycleAssumption, EmSame DEF EmInv, TypeInv, AllDown, Rest, AllSteps
  <2> QED BY <2>1, <2>2, <2>3, <2>4, <2>5, <2>6
<1> QED BY <1>2, <1>3 DEF EndLeave

\* The orphans are flushed: the scheduler is paused again.
LEMMA PauseAgainOK ==
  ASSUME IInv, Orderly, NEW t \in Thr, PauseAgain(t) PROVE IInv'
<1> USE DEF IInv, PauseAgain, history
<1>1. TypeInv' BY Flushes DEF TypeInv, LifecycleTypeOK, grpvars
<1>2. ThreadInv' BY DEF ThreadInv, Found, TypeInv, LifecycleTypeOK
<1>3. CtxInv' BY DEF CtxInv, grpvars, TypeInv, LifecycleTypeOK
<1>4. GroupInv' BY DEF GroupInv, Passed, Locked, grpvars, TypeInv, LifecycleTypeOK
<1>5. DueInv' BY DEF DueInv, Found, grpvars, TypeInv, LifecycleTypeOK
<1>6. EmInv' BY LifecycleAssumption, EmSame DEF EmInv, TypeInv, AllDown, Rest, AllSteps
<1> QED BY <1>1, <1>2, <1>3, <1>4, <1>5, <1>6

\* A flushed group is unlocked and left.
LEMMA UnlockOrphanOK ==
  ASSUME IInv, Orderly, NEW t \in Thr, UnlockOrphan(t) PROVE IInv'
<1> USE DEF IInv
<1>1. PICK g \in QGroups :
        /\ life[t] = "unlock" /\ qlock[g] = t
        /\ LeavesGroup(t, g) /\ qlock' = [qlock EXCEPT ![g] = NoThr]
        /\ due' = due \ Found(InQueue(g))
        /\ IF Locked(t) = {g} THEN TermDone(t) ELSE UNCHANGED <<life, gi, flag>>
        /\ UNCHANGED <<em, odpPaused, at, actx, leaked, twice, starts, inits>>
  <2>1. life[t] = "unlock" /\ Locked(t) # {} BY DEF UnlockOrphan, GroupInv
  <2>2. Locked(t) \in SUBSET QGroups BY DEF Locked
  <2>3. Min(Locked(t)) \in Locked(t) BY <2>1, <2>2, FirstGroup
  <2>4. Min(Locked(t)) \in QGroups /\ qlock[Min(Locked(t))] = t BY <2>3 DEF Locked
  <2> QED BY <2>1, <2>4 DEF UnlockOrphan, history
<1>2. /\ \A h \in QGroups : h # g => qlock'[h] = qlock[h] /\ qmask'[h] = qmask[h]
      /\ qlock'[g] = NoThr /\ qmask'[g] = {} /\ qmem' = qmask'
  BY <1>1 DEF LeavesGroup, GroupInv, TypeInv, LifecycleTypeOK
<1>3. /\ \A u \in Thr : u # t => life'[u] = life[u] /\ gi'[u] = gi[u]
      /\ life'[t] = (IF Locked(t) = {g} THEN "down" ELSE "unlock")
      /\ Locked(t) # {g} => gi' = gi
  BY <1>1 DEF TermDone, TypeInv, LifecycleTypeOK
<1>4. TypeInv'
  <2>1. /\ qmask' \in [QGroups -> SUBSET Thr] /\ qmem' \in [QGroups -> SUBSET Thr]
        /\ qlock' \in [QGroups -> Thr \cup {NoThr}]
    BY <1>1 DEF TypeInv, LifecycleTypeOK, LeavesGroup
  <2>2. /\ life' = [life EXCEPT ![t] = "down"] \/ life' = life
        /\ gi' = [gi EXCEPT ![t] = 0] \/ gi' = gi
        /\ flag' = [flag EXCEPT ![t] = FALSE] \/ flag' = flag
    BY <1>1 DEF TermDone
  <2>3. gi' \in [Thr -> 0..Cardinality(QGroups) + 1] BY <2>2, Groups DEF TypeInv, LifecycleTypeOK
  <2>4. life' \in [Thr -> {"down", "up", "local", "leave", "pause", "unlock"}
                          \cup DOMAIN AfterFlush]
    BY <2>2 DEF TypeInv, LifecycleTypeOK
  <2>5. flag' \in [Thr \cup {MainThr} -> BOOLEAN] BY <2>2 DEF TypeInv
  <2>6. due' \subseteq Evs BY <1>1 DEF TypeInv, LifecycleTypeOK
  <2> QED BY <1>1, <2>1, <2>3, <2>4, <2>5, <2>6 DEF TypeInv, LifecycleTypeOK
<1>5. ThreadInv'
  <2>1. \A u \in Thr : u # t => flag'[u] = flag[u] BY <1>1 DEF TermDone, TypeInv
  <2> QED BY <1>1, <1>3, <2>1 DEF ThreadInv, Found
<1>6. CtxInv'
  <2>1. \A h \in QGroups : actx[h] # t BY <1>1 DEF CtxInv
  <2>2. QuietMoves => actx[g] \notin Thr BY <1>1, <2>1 DEF CtxInv, GroupInv
  <2> QED BY <1>1, <1>2, <1>3, <2>1, <2>2 DEF CtxInv
<1>7. GroupInv'
  <2>1. \A u \in Thr, h \in QGroups : Passed(u, h)' <=> Passed(u, h) BY <1>1, <1>3 DEF Passed
  <2>2. \A h \in QGroups, u \in Thr : qlock'[h] = u => h # g /\ qlock[h] = u
    BY <1>2, LifecycleAssumption
  <2>3. \A h \in QGroups, u \in Thr : qlock'[h] = u => life'[u] # "down"
    <3> SUFFICES ASSUME NEW h \in QGroups, NEW u \in Thr, qlock'[h] = u, life'[u] = "down"
                 PROVE  FALSE
      OBVIOUS
    <3>1. h # g /\ qlock[h] = u BY <2>2
    <3>2. CASE u # t BY <1>3, <3>1, <3>2 DEF GroupInv
    <3>3. CASE u = t
      <4>1. h \in Locked(t) BY <3>1, <3>3 DEF Locked
      <4> QED BY <1>3, <3>1, <3>3, <4>1
    <3> QED BY <3>2, <3>3
  <2>4. \A h \in QGroups, u \in Thr : qlock'[h] = u => qmask'[h] = {u} /\ Passed(u, h)'
    BY <1>2, <2>1, <2>2 DEF GroupInv
  <2>5. \A h \in QGroups, u \in Thr : u \in qmask'[h] /\ Passed(u, h)' => qlock'[h] = u
    BY <1>2, <2>1 DEF GroupInv
  <2>6. \A u \in Thr : life'[u] \in {"orphans", "pause", "again", "unlock"} => Locked(u)' # {}
    <3> SUFFICES ASSUME NEW u \in Thr, life'[u] \in {"orphans", "pause", "again", "unlock"}
                 PROVE  Locked(u)' # {}
      OBVIOUS
    <3>1. CASE u # t
      <4>1. PICK h \in QGroups : qlock[h] = u BY <1>3, <3>1 DEF GroupInv, Locked
      <4> QED BY <1>1, <1>2, <3>1, <4>1 DEF Locked
    <3>2. CASE u = t
      <4>1. g \in Locked(t) /\ Locked(t) # {g} BY <1>1, <1>3, <3>2 DEF Locked
      <4>2. PICK h \in QGroups : qlock[h] = t /\ h # g BY <4>1 DEF Locked
      <4> QED BY <1>2, <3>2, <4>2 DEF Locked
    <3> QED BY <3>1, <3>2
  <2>7. \A u \in Thr : life'[u] = "leave" => gi'[u] >= 1 BY <1>3 DEF GroupInv
  <2> QED BY <1>2, <2>3, <2>4, <2>5, <2>6, <2>7 DEF GroupInv
<1>8. DueInv'
  <2>1. \A q : Found(q)' = Found(q) BY <1>1 DEF Found
  <2>2. ASSUME NEW e \in due' PROVE \E h \in QGroups : at'[e] = InQueue(h) /\ qlock'[h] \in Thr
    <3>1. PICK h \in QGroups : at[e] = InQueue(h) /\ qlock[h] \in Thr BY <1>1, <2>2 DEF DueInv
    <3>2. h # g BY <1>1, <3>1, DueWaits DEF Found
    <3> QED BY <1>1, <1>2, <3>1, <3>2
  <2>3. ASSUME QuietMoves, NEW u \in Thr, NEW h \in QGroups,
               life'[u] \in {"pause", "again", "unlock"}, qlock'[h] = u
        PROVE  due' \cap Found(InQueue(h))' = {}
    <3>1. qlock[h] = u BY <1>2, <2>3, LifecycleAssumption
    <3>2. life[u] \in {"pause", "again", "unlock"} BY <1>1, <1>3, <2>3
    <3>3. due \cap Found(InQueue(h)) = {} BY <2>3, <3>1, <3>2 DEF DueInv
    <3> QED BY <1>1, <2>1, <3>3
  <2> QED BY <2>2, <2>3 DEF DueInv
<1>9. EmInv'
  <2>1. flag'[MainThr] = flag[MainThr] BY <1>1, LifecycleAssumption DEF TermDone, TypeInv
  <2> QED BY <1>1, <2>1, EmSame DEF EmInv, TypeInv, AllDown, Rest, AllSteps
<1> QED BY <1>4, <1>5, <1>6, <1>7, <1>8, <1>9

-----------------------------------------------------------------------------
(* em_term() *)

\* Where em_term() ends: before it has done anything, at the pools, or at the end.
LEMMA TermEnds ==
  ASSUME Orderly, NEW left, NEW n \in 0..Len(TermSteps), \A i \in 1..n : TermStepOk(i, left),
         n < Len(TermSteps) => ~TermStepOk(n + 1, left) \/ TermSteps[n + 1] \in TermFails
  PROVE  /\ n \in {0, 2, 7}
         /\ n = 0 => "ctrl" \notin em.held
         /\ n # 0 => "ctrl" \in em.held
         /\ n = 7 => left = {}
<1>1. Len(TermSteps) = 7 BY DEF TermSteps
<1>2. /\ TermSteps[1] = "ctrl" /\ TermSteps[2] = "libconfig" /\ TermSteps[3] = "pool"
      /\ TermSteps[4] = "queue" /\ TermSteps[5] = "event_group" /\ TermSteps[6] = "queue_group"
      /\ TermSteps[7] = "shm"
  BY DEF TermSteps
<1>3. \A i \in 1..7 : TermSteps[i] \in TermFails => i = 3 BY <1>2 DEF Orderly
<1>4. \A i \in 1..7 : /\ i = 1 => (TermStepOk(i, left) <=> "ctrl" \in em.held)
                      /\ i = 3 => (TermStepOk(i, left) <=> left = {})
                      /\ i \notin {1, 3} => TermStepOk(i, left)
  BY <1>2 DEF TermStepOk
<1>5. n \in 0..7 /\ (n < 7 => n + 1 \in 1..7 /\ (~TermStepOk(n + 1, left) \/ n + 1 = 3))
  BY <1>1, <1>3
<1>6. n \in {0, 2, 7} BY <1>4, <1>5
<1>7. n = 0 => "ctrl" \notin em.held BY <1>4, <1>5
<1>8. n # 0 => 1 \in 1..n /\ TermStepOk(1, left) BY <1>6
<1>9. n = 7 => 3 \in 1..n /\ TermStepOk(3, left) OBVIOUS
<1> QED BY <1>4, <1>6, <1>7, <1>8, <1>9

\* What has been given back when it fails at the pools.
LEMMA TermGivesBack ==
  /\ ToSet(SubSeq(TermSteps, 1, 0)) = {}
  /\ ToSet(SubSeq(TermSteps, 1, 2)) = {"ctrl", "libconfig"}
  /\ \A i \in 1..Len(TermSteps) : TermSteps[i] \in AllSteps \cup {"shm"}
<1> DEFINE T == AllSteps \cup {"shm"}
<1>1. TermSteps \in Seq(T) /\ Len(TermSteps) = 7 BY DEF TermSteps, AllSteps
<1>2. \A i \in 1..7 : TermSteps[i] \in T BY DEF TermSteps, AllSteps
<1>3. ASSUME NEW n \in {0, 2}
      PROVE  /\ DOMAIN SubSeq(TermSteps, 1, n) = 1..n
             /\ \A i \in 1..n : SubSeq(TermSteps, 1, n)[i] = TermSteps[i]
  <2> DEFINE u == SubSeq(TermSteps, 1, n)
  <2>1. u \in Seq(T) /\ Len(u) = n /\ \A i \in 1..n : u[i] = TermSteps[i]
    <3>1. \A i \in 1..n : TermSteps[i] \in T BY <1>2
    <3>2. /\ u \in Seq(T) /\ Len(u) = (IF 1 <= n THEN n - 1 + 1 ELSE 0)
          /\ \A i \in 1..(n - 1 + 1) : u[i] = TermSteps[1 + i - 1]
      BY <3>1, SubSeqProperties
    <3> HIDE DEF u
    <3> QED BY <3>2
  <2> HIDE DEF u
  <2>2. DOMAIN u = 1..n BY <2>1, LenProperties
  <2> QED BY <2>1, <2>2 DEF u
<1>4. TermSteps[1] = "ctrl" /\ TermSteps[2] = "libconfig" BY DEF TermSteps
<1>5. ToSet(SubSeq(TermSteps, 1, 0)) = {} BY <1>3 DEF ToSet
<1>6. ToSet(SubSeq(TermSteps, 1, 2)) = {"ctrl", "libconfig"}
  <2> DEFINE u == SubSeq(TermSteps, 1, 2)
  <2>1. DOMAIN u = 1..2 /\ u[1] = "ctrl" /\ u[2] = "libconfig" BY <1>3, <1>4
  <2> HIDE DEF u
  <2>2. ToSet(u) = {"ctrl", "libconfig"} BY <2>1 DEF ToSet
  <2> QED BY <2>2 DEF u
<1> QED BY <1>1, <1>2, <1>5, <1>6

\* em_term() leaves no event behind, whether it fails or not.
LEMMA EmTermAll ==
  ASSUME IInv, Orderly, em_term(MainThr)
  PROVE  \A e \in Evs : at[e] = InPool \/ e \in FlushedBy(MainThr) \cup CtrlFreed
<1> USE DEF IInv
<1>1. em.init /\ \A t \in Thr : life[t] = "down" BY DEF em_term, AllDown
<1>2. \A g \in QGroups : actx[g] = NoThr BY <1>1 DEF CtxInv, TypeInv, LifecycleTypeOK
<1>3. ~(odpPaused[MainThr] /\ ~flag[MainThr]) BY DEF EmInv
<1>4. CASE em.held = Rest BY <1>1, <1>4 DEF EmInv
<1>5. CASE em.held = AllSteps
  <2> SUFFICES ASSUME NEW e \in Evs PROVE at[e] = InPool \/ e \in FlushedBy(MainThr) \cup CtrlFreed
    OBVIOUS
  <2>1. "ctrl" \in em.held BY <1>5 DEF AllSteps
  <2>2. \A t \in Thr : at[e] # Prefetched(t) /\ at[e] # Local(t) BY <1>1 DEF ThreadInv, Found
  <2>3. ASSUME NEW g \in QGroups, at[e] = InQueue(g) PROVE e \in FlushedBy(MainThr)
    BY <1>2, <1>3, <2>3 DEF FlushedBy, Found
  <2>4. ASSUME NEW t \in Thr, at[e] = Ctrl(t) PROVE e \in CtrlFreed
    BY <2>1, <2>4 DEF CtrlFreed, Found
  <2>5. at[e] \in Places BY DEF TypeInv
  <2> QED BY <2>2, <2>3, <2>4, <2>5, Somewhere
<1> QED BY <1>1, <1>4, <1>5 DEF EmInv

\* What em_term() does to what em_init() has taken.
LEMMA EmTermHeld ==
  ASSUME IInv, Orderly, em_term(MainThr)
  PROVE  /\ em' \in [shm : BOOLEAN, init : BOOLEAN, held : SUBSET ToSet(InitSteps)]
         /\ em'.init => em'.shm /\ em'.held \in {AllSteps, Rest}
         /\ ~leaked' /\ ~twice'
<1> USE DEF IInv
<1> DEFINE freed_ == FlushedBy(MainThr) \cup CtrlFreed
           left   == {e \in Evs \ freed_ : at[e] # InPool}
<1>1. left = {} BY EmTermAll
<1>2. PICK n \in 0..Len(TermSteps) :
        /\ \A i \in 1..n : TermStepOk(i, left)
        /\ n < Len(TermSteps) => ~TermStepOk(n + 1, left) \/ TermSteps[n + 1] \in TermFails
        /\ em' = IF n = Len(TermSteps) THEN [shm |-> FALSE, init |-> FALSE, held |-> {}]
                 ELSE [em EXCEPT !.held = @ \ ToSet(SubSeq(TermSteps, 1, n))]
        /\ twice' = (twice \/ "queue" \notin em.held
                           \/ \E i \in 1..n : TermSteps[i] \notin em.held \cup {"shm"})
        /\ leaked' = (leaked \/ left # {})
  BY DEF em_term
<1> HIDE DEF left, freed_
<1>3. em.init /\ em.held \in {AllSteps, Rest} /\ em.shm BY DEF em_term, EmInv
<1>4. /\ n \in {0, 2, 7} /\ (n = 0 => "ctrl" \notin em.held) /\ (n # 0 => "ctrl" \in em.held)
  BY <1>2, TermEnds
<1>5. Len(TermSteps) = 7 BY DEF TermSteps
<1>6. ~leaked' BY <1>1, <1>2 DEF EmInv
<1>7. em.held = (IF n = 0 THEN Rest ELSE AllSteps) BY <1>3, <1>4 DEF AllSteps, Rest
<1>8. ~twice'
  <2>1. "queue" \in em.held BY <1>7 DEF AllSteps, Rest
  <2>2. \A i \in 1..n : TermSteps[i] \in em.held \cup {"shm"} BY <1>4, <1>5, <1>7, TermGivesBack
  <2> QED BY <1>2, <2>1, <2>2 DEF EmInv
<1>9. CASE n = 7 BY <1>2, <1>5, <1>6, <1>8, <1>9
<1>10. CASE n # 7
  <2>1. em' = [em EXCEPT !.held = @ \ ToSet(SubSeq(TermSteps, 1, n))] BY <1>2, <1>5, <1>10
  <2>2. /\ em'.held = em.held \ ToSet(SubSeq(TermSteps, 1, n))
        /\ em'.shm = em.shm /\ em'.init = em.init
    BY <2>1 DEF TypeInv, LifecycleTypeOK
  <2>3. em'.held = Rest
    <3>1. CASE n = 0 BY <1>7, <2>2, <3>1, TermGivesBack
    <3>2. CASE n = 2 BY <1>7, <2>2, <3>2, TermGivesBack DEF Rest
    <3> QED BY <1>4, <1>10, <3>1, <3>2
  <2>4. em' \in [shm : BOOLEAN, init : BOOLEAN, held : SUBSET ToSet(InitSteps)]
    BY <2>1 DEF TypeInv, LifecycleTypeOK
  <2> QED BY <1>3, <1>6, <1>8, <2>2, <2>3, <2>4
<1> QED BY <1>9, <1>10

\* em_term(), also one that fails at the pools.
LEMMA EmTermOK ==
  ASSUME IInv, Orderly, em_term(MainThr) PROVE IInv'
<1> USE DEF IInv
<1>1. /\ \A t \in Thr : life[t] = "down"
      /\ at' = Returned(FlushedBy(MainThr) \cup CtrlFreed)
      /\ qmask' = [g \in QGroups |-> {}] /\ qmem' = [g \in QGroups |-> {}]
      /\ flag' = [flag EXCEPT ![MainThr] = TRUE]
      /\ odpPaused' = [odpPaused EXCEPT ![MainThr] = TRUE]
      /\ due' = {}
      /\ UNCHANGED <<life, gi, qlock, actx, starts, inits>>
  BY DEF em_term, AllDown
<1>2. DOMAIN at' = Evs /\ \A e \in Evs : at'[e] = InPool
  <2>1. at' = [e \in Evs |-> IF e \in FlushedBy(MainThr) \cup CtrlFreed THEN InPool ELSE at[e]]
    BY <1>1 DEF Returned, Moved
  <2> QED BY <2>1, EmTermAll
<1>3. TypeInv' BY <1>1, <1>2, EmTermHeld, PlacesType DEF TypeInv, LifecycleTypeOK
<1>4. ThreadInv'
  <2>1. \A t \in Thr : Found(Prefetched(t))' = {} /\ Found(Local(t))' = {}
    BY <1>2, PlacesDiffer DEF Found
  <2> QED BY <1>1, <2>1 DEF ThreadInv
<1>5. CtxInv' BY <1>1 DEF CtxInv
<1>6. GroupInv'
  <2>1. \A g \in QGroups, t \in Thr : qlock[g] # t BY <1>1 DEF GroupInv
  <2> QED BY <1>1, <2>1 DEF GroupInv
<1>7. DueInv' BY <1>1 DEF DueInv
<1>8. EmInv'
  <2>1. flag'[MainThr] = odpPaused'[MainThr] BY <1>1 DEF TypeInv
  <2>2. AllDown' BY <1>1 DEF AllDown
  <2> QED BY <1>2, <2>1, <2>2, EmTermHeld DEF EmInv
<1> QED BY <1>3, <1>4, <1>5, <1>6, <1>7, <1>8

-----------------------------------------------------------------------------
(* Theorems. *)

\* Nothing changes.
LEMMA StutterOK == ASSUME IInv, UNCHANGED lvars PROVE IInv'
<1> USE DEF IInv, lvars
<1>1. TypeInv' BY DEF TypeInv, LifecycleTypeOK
<1>2. ThreadInv' BY ThreadsSame
<1>3. CtxInv' BY CtxSame
<1>4. GroupInv' BY GroupsSame
<1>5. DueInv' BY DueSame
<1>6. EmInv' BY EmSame DEF TypeInv
<1> QED BY <1>1, <1>2, <1>3, <1>4, <1>5, <1>6

\* Every step keeps the invariant.
LEMMA NextOK == ASSUME IInv, Orderly, [LifecycleNext]_lvars PROVE IInv'
<1>1. ASSUME NEW n \in 0..Len(InitSteps), EmInit(n) PROVE IInv' BY <1>1, EmInitOK
<1>2. ASSUME NEW t \in Thr,
             Start(t) \/ Handle(t) \/ PauseDispatch(t) \/ ResumeDispatch(t) \/ term_core(t)
      PROVE  IInv'
  BY <1>2, StartOK, HandleOK, PauseDispatchOK, ResumeDispatchOK, TermCoreOK
<1>3. ASSUME NEW t \in Thr, TermStep(t) PROVE IInv'
  BY <1>3, FlushOK, LocalOK, LeaveNextOK, EndLeaveOK, PauseAgainOK, UnlockOrphanOK DEF TermStep
<1>4. ASSUME NEW t \in Thr, NEW e \in Evs, Send_to(t, e) PROVE IInv' BY <1>4, SendOK
<1>5. ASSUME NEW t \in Thr, NEW g \in QGroups, NEW B \in SUBSET Evs, Prefetch(t, g, B) PROVE IInv'
  BY <1>5, PrefetchOK
<1>6. ASSUME NEW g \in QGroups, NEW m \in SUBSET Thr, Assign(g, m) PROVE IInv' BY <1>6, AssignOK
<1>7. ASSUME em_term(MainThr) PROVE IInv' BY <1>7, EmTermOK
<1>8. CASE UNCHANGED lvars BY <1>8, StutterOK
<1> QED BY <1>1, <1>2, <1>3, <1>4, <1>5, <1>6, <1>7, <1>8 DEF LifecycleNext, Orderly

\* The invariant holds always: of the threads, their contexts and groups, the
\* events to be flushed, and what em_init() holds.
THEOREM LifecycleInductive == ASSUME Orderly PROVE LifecycleSpec => []IInv
<1>1. LifecycleInit => IInv BY InitOK
<1>2. IInv /\ [LifecycleNext]_lvars => IInv' BY NextOK
<1> QED BY <1>1, <1>2, PTL DEF LifecycleSpec

\* What EM believes is true: a core that dispatches is not paused in ODP
\* (is_sched_paused), and em_term() may be called again when it has failed at the
\* pools, without giving back or using anything twice.
THEOREM LifecycleCorrect == ASSUME Orderly PROVE LifecycleSpec => []LifecycleInv
<1>1. IInv => LifecycleInv
  BY DEF IInv, TypeInv, ThreadInv, EmInv, LifecycleInv, DispatchingSchedules, TermTouchesOnlyHeld
<1> QED BY <1>1, LifecycleInductive, PTL

\* The flush in em_term() reaches every event that is left, for any number of
\* cores that have come and gone.
THEOREM ReachesAllEvents == ASSUME Orderly PROVE LifecycleSpec => []TermReachesAllEvents
<1>1. IInv => TermReachesAllEvents BY DEF IInv, EmInv, TermReachesAllEvents
<1> QED BY <1>1, LifecycleInductive, PTL

\* Only the flush of an orphan takes an event from a queue to its pool, or
\* em_term() when all cores are down.
LEMMA WhoTakes ==
  ASSUME IInv, Orderly, LifecycleNext,
         NEW e \in Evs, NEW g \in QGroups, at[e] = InQueue(g), at'[e] = InPool
  PROVE  \/ \A t \in Thr : life[t] = "down"
         \/ \E t \in Thr : actx'[g] = t /\ qmask[g] = {t}
<1>0. at'[e] # at[e] BY PlacesDiffer
<1>1. ASSUME NEW n \in 0..Len(InitSteps), EmInit(n) PROVE FALSE BY <1>0, <1>1 DEF EmInit
<1>2. ASSUME NEW t \in Thr, Start(t) \/ PauseDispatch(t) \/ ResumeDispatch(t) \/ term_core(t)
      PROVE  FALSE
  BY <1>0, <1>2 DEF Start, PauseDispatch, ResumeDispatch, term_core
<1>3. ASSUME NEW t \in Thr, Handle(t) PROVE FALSE
  BY <1>0, <1>3, PlacesDiffer DEF Handle, Returned, Moved, Found
<1>4. ASSUME NEW t \in Thr, NEW f \in Evs, Send_to(t, f) PROVE FALSE
  <2>1. e # f BY <1>4, PlacesDiffer DEF Send_to
  <2> QED BY <1>0, <1>4, <2>1 DEF Send_to, Moved
<1>5. ASSUME NEW t \in Thr, NEW h \in QGroups, NEW B \in SUBSET Evs, Prefetch(t, h, B) PROVE FALSE
  BY <1>0, <1>5, PlacesDiffer DEF Prefetch, Moved
<1>6. ASSUME NEW h \in QGroups, NEW m \in SUBSET Thr, Assign(h, m) PROVE FALSE
  BY <1>0, <1>6 DEF Assign
<1>7. ASSUME em_term(MainThr) PROVE \A t \in Thr : life[t] = "down" BY <1>7 DEF em_term, AllDown
<1>8. ASSUME NEW t \in Thr, queue_term_local(t) PROVE FALSE
  BY <1>0, <1>8, PlacesDiffer DEF queue_term_local, Returned, Moved, Found
<1>9. ASSUME NEW t \in Thr, LeaveNext(t) \/ EndLeave(t) \/ PauseAgain(t) \/ UnlockOrphan(t)
      PROVE  FALSE
  BY <1>0, <1>9 DEF LeaveNext, EndLeave, PauseAgain, UnlockOrphan
<1>10. ASSUME NEW t \in Thr, flush_scheduler_events(t)
       PROVE  \E u \in Thr : actx'[g] = u /\ qmask[g] = {u}
  <2>1. CASE at' = Returned(Found(Prefetched(t)))
    BY <1>0, <2>1, PlacesDiffer DEF Returned, Moved, Found
  <2>2. ASSUME NEW h \in Locked(t), NEW B \in SUBSET Found(InQueue(h)), at' = Returned(B),
               actx' = [CtxReleased(t) EXCEPT ![h] = t]
        PROVE  actx'[g] = t /\ qmask[g] = {t}
    <3>1. e \in B BY <1>0, <2>2 DEF Returned, Moved
    <3>2. h = g BY <3>1, PlacesDiffer DEF Found
    <3> QED BY <2>2, <3>2 DEF CtxReleased, Locked, IInv, GroupInv
  <2>3. CASE UNCHANGED at BY <1>0, <2>3
  <2> QED BY <1>10, <2>1, <2>2, <2>3, FlushCases
<1> QED BY <1>1, <1>2, <1>3, <1>4, <1>5, <1>6, <1>7, <1>8, <1>9, <1>10
     DEF LifecycleNext, TermStep, Orderly

\* Only the end of a flush unlocks a group.
LEMMA WhoUnlocks ==
  ASSUME IInv, Orderly, LifecycleNext, NEW g \in QGroups, qlock[g] # NoThr, qlock'[g] = NoThr
  PROVE  \E t \in Thr : qlock[g] = t /\ life[t] = "unlock"
<1>1. ASSUME NEW n \in 0..Len(InitSteps), EmInit(n) PROVE FALSE BY <1>1 DEF EmInit, grpvars
<1>2. ASSUME NEW t \in Thr, \/ Start(t) \/ Handle(t) \/ PauseDispatch(t) \/ ResumeDispatch(t)
                            \/ term_core(t)
      PROVE  FALSE
  BY <1>2 DEF Start, Handle, PauseDispatch, ResumeDispatch, term_core, grpvars
<1>3. ASSUME NEW t \in Thr, NEW f \in Evs, Send_to(t, f) PROVE FALSE BY <1>3 DEF Send_to, grpvars
<1>4. ASSUME NEW t \in Thr, NEW h \in QGroups, NEW B \in SUBSET Evs, Prefetch(t, h, B) PROVE FALSE
  BY <1>4 DEF Prefetch, grpvars
<1>5. ASSUME NEW h \in QGroups, NEW m \in SUBSET Thr, Assign(h, m) PROVE FALSE
  BY <1>5 DEF Assign
<1>6. ASSUME em_term(MainThr) PROVE FALSE BY <1>6 DEF em_term
<1>7. ASSUME NEW t \in Thr, \/ flush_scheduler_events(t) \/ queue_term_local(t) \/ EndLeave(t)
                            \/ PauseAgain(t)
      PROVE  FALSE
  BY <1>7 DEF flush_scheduler_events, queue_term_local, EndLeave, PauseAgain, grpvars
<1>8. ASSUME NEW t \in Thr, LeaveNext(t) PROVE FALSE
  BY <1>8, LifecycleAssumption DEF LeaveNext, IInv, TypeInv, LifecycleTypeOK
<1>9. ASSUME NEW t \in Thr, UnlockOrphan(t) PROVE qlock[g] = t /\ life[t] = "unlock"
  <2> DEFINE h == Min(Locked(t))
  <2>1. life[t] = "unlock" /\ qlock' = [qlock EXCEPT ![h] = NoThr] BY <1>9 DEF UnlockOrphan
  <2>2. Locked(t) \in SUBSET QGroups /\ Locked(t) # {} BY <2>1 DEF Locked, IInv, GroupInv
  <2>3. h \in Locked(t) BY <2>2, FirstGroup
  <2> HIDE DEF h
  <2>4. g = h BY <2>1 DEF IInv, TypeInv, LifecycleTypeOK
  <2> QED BY <2>1, <2>3, <2>4 DEF Locked
<1> QED BY <1>1, <1>2, <1>3, <1>4, <1>5, <1>6, <1>7, <1>8, <1>9
     DEF LifecycleNext, TermStep, Orderly

\* A core that terminates frees the events of the groups it is the last core of
\* (queue_group_leave_all()) before it unlocks them, and of no other.
THEOREM FlushTakesItsOwnHolds == ASSUME Orderly, QuietMoves PROVE LifecycleSpec => FlushTakesItsOwn
<1>1. IInv /\ [LifecycleNext]_lvars =>
        [\A e \in Evs, g \in QGroups, t \in Thr :
           /\ at[e] = InQueue(g) /\ at'[e] = InPool /\ life[t] \notin {"up", "down"}
           /\ actx'[g] = t
           => qmask[g] = {t}]_lvars
  <2> SUFFICES ASSUME IInv, LifecycleNext, NEW e \in Evs, NEW g \in QGroups, NEW t \in Thr,
                      at[e] = InQueue(g), at'[e] = InPool, life[t] \notin {"up", "down"},
                      actx'[g] = t
               PROVE  qmask[g] = {t}
    OBVIOUS
  <2> QED BY WhoTakes
<1>2. IInv /\ [LifecycleNext]_lvars =>
        [\A g \in QGroups : qlock[g] # NoThr /\ qlock'[g] = NoThr
                            => due \cap Found(InQueue(g)) = {}]_lvars
  <2> SUFFICES ASSUME IInv, LifecycleNext, NEW g \in QGroups, qlock[g] # NoThr, qlock'[g] = NoThr
               PROVE  due \cap Found(InQueue(g)) = {}
    OBVIOUS
  <2> QED BY WhoUnlocks DEF IInv, DueInv
<1> QED BY <1>1, <1>2, LifecycleInductive, PTL
     DEF LifecycleSpec, FlushTakesItsOwn, FlushSparesServed, OrphansFlushed
=============================================================================
