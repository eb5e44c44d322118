--------------------------- MODULE ResourceProofs ---------------------------
(***************************************************************************)
(* The safety properties of Pool and Queue, for any number of cores,       *)
(* pools and queues and for pool configurations of any length.             *)
(*                                                                         *)
(* Pools: create_subpools(), pool_delete() and pool_term() work on one     *)
(* pool in several steps, and calls of several cores overlap. The          *)
(* argument is that the calls keep apart (OnePoolCall), that each ODP      *)
(* pool that exists is one subpool of one pool (OdpInv), and that          *)
(* pool_tbl.pool_odp2em is right for every ODP pool but those of which a   *)
(* call is just about to store or to clear the mapping (MapInv).           *)
(*                                                                         *)
(* Queues: an element is in use or in the pool of elements, and in use it  *)
(* is either settled or in the hands of one call; how far that call has    *)
(* come says which of its parts are in place (QueueOK). An aggregator      *)
(* that is in use is known to one queue, or in the hands of one call       *)
(* (TreeInv).                                                              *)
(***************************************************************************)
EXTENDS Pool, Queue, FiniteSetTheorems, SequenceTheorems, WellFoundedInduction, TLAPS

-----------------------------------------------------------------------------
(* Pools: the inductive invariant *)

Subpool  == [idx : OdpIdx \cup {NoIdx}, size : Nat]
Entry    == [size : Nat, num : Nat]
OdpPool  == [live : BOOLEAN, size : Nat, num : Nat, used : Nat, want : Nat]
Names    == {"none", "startup", "app", "default"}
PoolCall == [pc : {"none", "scan", "sub", "map", "destroy", "clear"}, h : Handles \cup {Undef}, i : Nat,
             cfg : Seq(Entry), name : Names, idx : OdpIdx \cup {NoIdx}]
Startup  == [req : 0..NumPools, cfg : Cfgs]
Boot     == [phase : {"init", "run", "term", "done", "failed"}, conf : Startups, next : Nat \ {0},
             dflt : BOOLEAN]

PTypeInv ==
  /\ free \in SUBSET Handles
  /\ pool \in [Handles -> [name : Names, subs : Seq(Subpool)]]
  /\ odp \in [OdpIdx -> OdpPool]
  /\ odp2em \in [OdpIdx -> [pool : 0..NumPools, sub : Nat]]
  /\ pcall \in [PoolCores -> PoolCall]
  /\ boot \in Boot

\* The startup pools name the default pool once at most.
OneDefault ==
  \A s \in Startups : \A i, j \in DOMAIN s : IsDefault(s[i]) /\ IsDefault(s[j]) => i = j

\* No two calls are on the same pool, and none is made while another goes.
OnePoolCall ==
  /\ \A c, d \in PoolCores : pcall[c].h = pcall[d].h /\ pcall[c].h # Undef => c = d
  /\ ~(Busy(Creating) /\ Busy(Deleting))

\* How far a call has come, and the subpools of its pool.
Ascends(s)   == \A i, j \in DOMAIN s : i < j => s[i].size <= s[j].size
Live(h, i)   == pool[h].subs[i].idx # NoIdx
MadeAs(h, s) == \A i \in DOMAIN pool[h].subs : Live(h, i) /\ pool[h].subs[i].size = s[i].size
PoolCallOK(c) ==
  LET r == pcall[c]  n == Len(pool[pcall[c].h].subs) IN
  /\ r.h = Undef <=> r.pc \in {"none", "scan"}
  /\ r.h # Undef => r.h \notin free
  /\ r.pc = "scan" => r.cfg \in Cfgs /\ r.name \in {"startup", "app"} /\ Default \notin free
  /\ r.pc \in {"sub", "map"} =>
       /\ Ascends(r.cfg) /\ r.i \in 1..Len(r.cfg) /\ MadeAs(r.h, r.cfg)
       /\ n = IF r.pc = "sub" THEN r.i - 1 ELSE r.i
  /\ r.pc = "map" => r.idx \in OdpIdx /\ pool[r.h].subs[r.i].idx = r.idx
  /\ r.pc \in {"destroy", "clear"} =>
       /\ r.i # 0
       /\ \A i \in 1..n : Live(r.h, i) <=> i > (IF r.pc = "destroy" THEN r.i - 1 ELSE r.i)
  /\ r.pc = "clear" => r.idx \in OdpIdx /\ ~odp[r.idx].live
PCallsInv == \A c \in PoolCores : PoolCallOK(c)

\* A pool, and its subpools in ascending order.
Quiet(h) == \A c \in PoolCores : pcall[c].h # h
PoolOK(h) ==
  /\ h \in free => pool[h] = NoPool
  /\ Ascends(pool[h].subs) /\ Len(pool[h].subs) <= Cardinality(OdpIdx)
  /\ \A i \in DOMAIN pool[h].subs :
       pool[h].subs[i].size = IF Live(h, i) THEN odp[pool[h].subs[i].idx].size ELSE 0
  /\ boot.phase \in {"init", "run"} /\ Quiet(h) => \A i \in DOMAIN pool[h].subs : Live(h, i)
  /\ pool[h].name = "default" => h = Default
  /\ boot.phase # "term" /\ ~Quiet(h) => ~InUse(h)
PoolsInv == \A h \in Handles : PoolOK(h)

\* An ODP pool that exists is one subpool of one pool.
Owns(h, i, x) == i \in DOMAIN pool[h].subs /\ pool[h].subs[i].idx = x
Owned(x)      == \E h \in Handles, i \in Nat : Owns(h, i, x)
OdpOK(x) ==
  /\ odp[x].live <=> Owned(x)
  /\ ~odp[x].live => odp[x] = NoOdp
  /\ odp[x].used <= odp[x].num /\ odp[x].want <= odp[x].size
  /\ boot.phase \in {"init", "failed"} => odp[x].used = 0
  /\ odp[x].used = 0 => odp[x].want = 0
OdpInv ==
  /\ \A x \in OdpIdx : OdpOK(x)
  /\ \A x \in OdpIdx : \A g, h \in Handles, i, j \in Nat : Owns(g, i, x) /\ Owns(h, j, x) => g = h /\ i = j

\* The mapping, but for the ODP pool whose mapping is about to be written.
At(pc, x) == \E c \in PoolCores : pcall[c].pc = pc /\ pcall[c].idx = x
MapOK(x) ==
  /\ \A h \in Handles, i \in Nat :
       Owns(h, i, x) => odp2em[x] = [pool |-> h, sub |-> i] \/ At("map", x)
  /\ ~Owned(x) => odp2em[x] = NoMap \/ At("clear", x)
MapInv == \A x \in OdpIdx : MapOK(x)

\* pool_init() and pool_term().
Extra   == Handles \ (free \cup {Default})
Ordered == {k \in 1..boot.next - 1 : ~IsDefault(boot.conf[k])}
InitOK ==
  boot.phase = "init" =>
    /\ Cardinality(Extra) + (IF pcall[0].pc = "scan" THEN 1 ELSE 0) <= Cardinality(Ordered)
    /\ boot.next <= Len(boot.conf) + 1
    /\ ~boot.dflt => /\ Default \notin free /\ pool[Default] = NoPool /\ pcall[0].h # Default
                     /\ \A k \in 1..boot.next - 1 : ~IsDefault(boot.conf[k])
    /\ boot.dflt => /\ Default \in free \/ pool[Default].name = "default"
                    /\ boot.next > Len(boot.conf) \/ \E k \in 1..boot.next - 1 : IsDefault(boot.conf[k])
RunOK == boot.phase = "run" => Default \notin free /\ pool[Default].name = "default" /\ Quiet(Default)
TermOK ==
  /\ boot.phase \in {"term", "done"} =>
       /\ \A h \in Handles : h < boot.next /\ h \notin free /\ Quiet(h) => InUse(h)
       /\ pcall[0].h < boot.next /\ pcall[0].pc \notin Creating
       /\ \A h \in Handles : h >= boot.next => \A i \in DOMAIN pool[h].subs : Live(h, i)
  /\ boot.phase = "done" => boot.next > NumPools
BootInv ==
  /\ boot.phase # "run" => \A c \in PoolCores : c # 0 => pcall[c].pc = "none"
  /\ boot.phase \in {"done", "failed"} => pcall[0].pc = "none"
  /\ InitOK /\ RunOK /\ TermOK

PInv ==
  /\ PTypeInv /\ OnePoolCall /\ PCallsInv /\ PoolsInv /\ OdpInv /\ MapInv /\ BootInv

-----------------------------------------------------------------------------
(* Frames *)

LEMMA ConstantsAre ==
  /\ NumPools \in Nat /\ NumCores \in Nat /\ 0 \in PoolCores /\ PoolCores \in SUBSET Nat
  /\ Default \in Handles /\ Undef \notin Handles /\ Handles \in SUBSET Nat
  /\ OdpIdx \in SUBSET Nat /\ NoIdx \notin OdpIdx /\ IsFiniteSet(OdpIdx) /\ IsFiniteSet(Handles)
  /\ Handles = 1..NumPools
<1>1. NumPools \in Nat /\ NumPools # 0 /\ NumCores \in Nat /\ NumCores # 0 BY PoolAssumption
<1>2. IsFiniteSet(1..NumPools) BY <1>1, FS_Interval
<1> QED BY <1>1, <1>2, PoolAssumption DEF PoolCores, Handles, Default, Undef, NoIdx

\* The call of core c becomes r, and no other changes.
CallTo(c, r) == r \in PoolCall /\ pcall' = [pcall EXCEPT ![c] = r]

\* The calls after a step of core c.
LEMMA CallToIs ==
  ASSUME PTypeInv, NEW c \in PoolCores, NEW r, CallTo(c, r)
  PROVE  /\ pcall' \in [PoolCores -> PoolCall] /\ pcall'[c] = r /\ r \in PoolCall
         /\ \A d \in PoolCores : d # c => pcall'[d] = pcall[d]
BY DEF PTypeInv, CallTo

\* The types, as the proofs use them.
LEMMA PTypes ==
  ASSUME PTypeInv
  PROVE  /\ \A h \in Handles : /\ pool[h].name \in Names /\ pool[h].subs \in Seq(Subpool)
                               /\ Len(pool[h].subs) \in Nat
                               /\ DOMAIN pool[h].subs = 1..Len(pool[h].subs)
         /\ \A h \in Handles : \A i \in DOMAIN pool[h].subs :
              /\ i \in Nat /\ pool[h].subs[i] \in Subpool
              /\ pool[h].subs[i].idx \in OdpIdx \cup {NoIdx} /\ pool[h].subs[i].size \in Nat
         /\ \A x \in OdpIdx : /\ odp[x] \in OdpPool /\ odp[x].live \in BOOLEAN /\ odp[x].size \in Nat
                              /\ odp[x].num \in Nat /\ odp[x].used \in Nat /\ odp[x].want \in Nat
         /\ \A c \in PoolCores : /\ pcall[c] \in PoolCall /\ pcall[c].h \in Handles \cup {Undef}
                                 /\ pcall[c].i \in Nat /\ pcall[c].cfg \in Seq(Entry)
         /\ boot.phase \in {"init", "run", "term", "done", "failed"} /\ boot.conf \in Startups
         /\ boot.next \in Nat /\ boot.next # 0 /\ boot.dflt \in BOOLEAN
<1>1. ASSUME NEW h \in Handles
      PROVE  /\ pool[h].name \in Names /\ pool[h].subs \in Seq(Subpool) /\ Len(pool[h].subs) \in Nat
             /\ DOMAIN pool[h].subs = 1..Len(pool[h].subs)
             /\ \A i \in DOMAIN pool[h].subs :
                  /\ i \in Nat /\ pool[h].subs[i] \in Subpool
                  /\ pool[h].subs[i].idx \in OdpIdx \cup {NoIdx} /\ pool[h].subs[i].size \in Nat
  <2>1. pool[h].name \in Names /\ pool[h].subs \in Seq(Subpool) BY DEF PTypeInv
  <2>2. PICK s \in Seq(Subpool) : s = pool[h].subs BY <2>1
  <2>3. \A i \in DOMAIN s : i \in Nat /\ s[i] \in Subpool OBVIOUS
  <2>4. Len(s) \in Nat /\ DOMAIN s = 1..Len(s) OBVIOUS
  <2> QED BY <2>1, <2>2, <2>3, <2>4 DEF Subpool
<1>2. \A x \in OdpIdx : /\ odp[x] \in OdpPool /\ odp[x].live \in BOOLEAN /\ odp[x].size \in Nat
                        /\ odp[x].num \in Nat /\ odp[x].used \in Nat /\ odp[x].want \in Nat
  BY DEF PTypeInv, OdpPool
<1>3. \A c \in PoolCores : /\ pcall[c] \in PoolCall /\ pcall[c].h \in Handles \cup {Undef}
                           /\ pcall[c].i \in Nat /\ pcall[c].cfg \in Seq(Entry)
  BY DEF PTypeInv, PoolCall
<1>4. /\ boot.phase \in {"init", "run", "term", "done", "failed"} /\ boot.conf \in Startups
      /\ boot.next \in Nat /\ boot.next # 0 /\ boot.dflt \in BOOLEAN
  BY DEF PTypeInv, Boot
<1> QED BY <1>1, <1>2, <1>3, <1>4

\* The new call of core c is on a pool of its own, and is allowed beside the others.
Joins(c, r) ==
  /\ CallTo(c, r)
  /\ r.h = Undef \/ \A d \in PoolCores : d # c => pcall[d].h # r.h
  /\ r.pc \in Creating => \A d \in PoolCores : d # c => pcall[d].pc \notin Deleting
  /\ r.pc \in Deleting => \A d \in PoolCores : d # c => pcall[d].pc \notin Creating

\* The calls still keep apart.
LEMMA OneCallStep ==
  ASSUME PTypeInv, OnePoolCall, NEW c \in PoolCores, NEW r, Joins(c, r)
  PROVE  OnePoolCall'
<1>1. CallTo(c, r) BY DEF Joins
<1>2. pcall'[c] = r /\ \A d \in PoolCores : d # c => pcall'[d] = pcall[d] BY <1>1, CallToIs
<1>3. ASSUME NEW a \in PoolCores, NEW b \in PoolCores, pcall'[a].h = pcall'[b].h, pcall'[a].h # Undef
      PROVE  a = b
  BY <1>2, <1>3 DEF OnePoolCall, Joins
<1>4. ASSUME NEW a \in PoolCores, NEW b \in PoolCores, pcall'[a].pc \in Creating, pcall'[b].pc \in Deleting
      PROVE  FALSE
  BY <1>2, <1>4 DEF OnePoolCall, Joins, Busy, Creating, Deleting
<1> QED BY <1>3, <1>4 DEF OnePoolCall, Busy

\* What the calls of the other cores see of a step of core c.
CallsSee(c) ==
  \A d \in PoolCores : d # c =>
    /\ pcall'[d] = pcall[d]
    /\ pcall[d].h \in Handles => /\ pool'[pcall[d].h].subs = pool[pcall[d].h].subs
                                 /\ pcall[d].h \notin free'
    /\ pcall[d].pc = "scan" => Default \notin free'
    /\ pcall[d].pc = "clear" => ~odp'[pcall[d].idx].live

\* Calls of other cores stay as far as they were.
LEMMA CallsKeep ==
  ASSUME PInv, NEW c, CallsSee(c)
  PROVE  \A d \in PoolCores : d # c => PoolCallOK(d)'
<1>1. ASSUME NEW d \in PoolCores, d # c PROVE PoolCallOK(d)'
  <2>1. PoolCallOK(d) BY DEF PInv, PCallsInv
  <2>2. /\ pcall'[d] = pcall[d]
        /\ pcall[d].h \in Handles => /\ pool'[pcall[d].h].subs = pool[pcall[d].h].subs
                                     /\ pcall[d].h \notin free'
        /\ pcall[d].pc = "scan" => Default \notin free'
        /\ pcall[d].pc = "clear" => ~odp'[pcall[d].idx].live
    BY <1>1 DEF CallsSee
  <2>3. pcall[d].h \in Handles \cup {Undef} BY PTypes DEF PInv
  <2>4. pcall[d].h # Undef => pcall[d].h \in Handles BY <2>3
  <2>5. pcall[d].pc \in {"sub", "map", "destroy", "clear"} => pcall[d].h # Undef
    BY <2>1 DEF PoolCallOK
  <2> QED BY <2>1, <2>2, <2>4, <2>5 DEF PoolCallOK, MadeAs, Live
<1> QED BY <1>1

\* How a step may change the phase, for the pools.
PhaseSeen ==
  /\ boot'.phase \in {"init", "run"} => boot.phase \in {"init", "run"}
  /\ boot'.phase \in {"init", "failed"} => boot.phase \in {"init", "failed"}
  /\ boot'.phase # "term" => boot.phase # "term" \/ \A c \in PoolCores : pcall'[c].h = Undef

\* What the other pools see of a step on pool e.
PoolsSee(e) ==
  /\ PhaseSeen
  /\ \A h \in Handles : h # e =>
       /\ pool'[h] = pool[h] /\ (h \in free' <=> h \in free)
       /\ Quiet(h)' <=> Quiet(h)
       /\ \A i \in DOMAIN pool[h].subs : Live(h, i) =>
            /\ odp'[pool[h].subs[i].idx].size = odp[pool[h].subs[i].idx].size
            /\ ~Quiet(h) /\ odp'[pool[h].subs[i].idx].used > 0 => odp[pool[h].subs[i].idx].used > 0

\* Pools that a step does not change stay as they were.
LEMMA PoolsKeep ==
  ASSUME PInv, NEW e, PoolsSee(e)
  PROVE  \A h \in Handles : h # e => PoolOK(h)'
<1>1. ASSUME NEW h \in Handles, h # e PROVE PoolOK(h)'
  <2>1. PoolOK(h) BY DEF PInv, PoolsInv
  <2>2. /\ pool'[h] = pool[h] /\ (h \in free' <=> h \in free)
        /\ Quiet(h)' <=> Quiet(h)
    BY <1>1 DEF PoolsSee
  <2>3. \A i \in DOMAIN pool[h].subs : Live(h, i) =>
            /\ odp'[pool[h].subs[i].idx].size = odp[pool[h].subs[i].idx].size
            /\ ~Quiet(h) /\ odp'[pool[h].subs[i].idx].used > 0 => odp[pool[h].subs[i].idx].used > 0
    BY <1>1 DEF PoolsSee
  <2>4. \A i : Live(h, i)' <=> Live(h, i) BY <2>2 DEF Live
  <2>5. ASSUME ~Quiet(h), InUse(h)' PROVE InUse(h) BY <2>2, <2>3, <2>4, <2>5 DEF InUse, Live
  <2>6. boot'.phase # "term" /\ ~Quiet(h)' => boot.phase # "term"
    BY ConstantsAre DEF PoolsSee, PhaseSeen, Quiet
  <2>7. boot'.phase \in {"init", "run"} => boot.phase \in {"init", "run"} BY DEF PoolsSee, PhaseSeen
  <2>8. ASSUME NEW i \in DOMAIN pool[h].subs
        PROVE  pool[h].subs[i].size = IF Live(h, i) THEN odp'[pool[h].subs[i].idx].size ELSE 0
    BY <2>1, <2>3 DEF PoolOK
  <2> QED BY <2>1, <2>2, <2>4, <2>5, <2>6, <2>7, <2>8 DEF PoolOK
<1> QED BY <1>1

\* The subpools that ODP pools are do not change.
OwnsSame ==
  \A h \in Handles, i \in Nat, x \in OdpIdx : Owns(h, i, x)' <=> Owns(h, i, x)

\* Subpools that do not change keep their ODP pools.
LEMMA SubsSame ==
  ASSUME \A h \in Handles : pool'[h].subs = pool[h].subs
  PROVE  OwnsSame
BY DEF OwnsSame, Owns

\* The ODP pools stay with the pools they belong to.
LEMMA OdpKeeps ==
  ASSUME PInv, OwnsSame, PhaseSeen, \A x \in OdpIdx : odp'[x] = odp[x]
  PROVE  OdpInv'
<1>1. ASSUME NEW x \in OdpIdx PROVE OdpOK(x)'
  <2>1. OdpOK(x) /\ odp'[x] = odp[x] BY DEF PInv, OdpInv
  <2>2. Owned(x)' <=> Owned(x) BY DEF Owned, OwnsSame
  <2> QED BY <2>1, <2>2 DEF OdpOK, PhaseSeen
<1>2. ASSUME NEW x \in OdpIdx, NEW g \in Handles, NEW h \in Handles, NEW i \in Nat, NEW j \in Nat,
             Owns(g, i, x)', Owns(h, j, x)'
      PROVE  g = h /\ i = j
  <2>1. Owns(g, i, x) /\ Owns(h, j, x) BY <1>2 DEF OwnsSame
  <2> QED BY <2>1 DEF PInv, OdpInv
<1> QED BY <1>1, <1>2 DEF OdpInv

\* No mapping becomes due, nor is written.
MapSeen(x) ==
  /\ odp2em'[x] = odp2em[x]
  /\ At("map", x) => At("map", x)'
  /\ At("clear", x) => At("clear", x)'

\* A mapping that is right stays right.
LEMMA MapKeeps ==
  ASSUME PInv, NEW x \in OdpIdx, MapSeen(x),
         \A h \in Handles, i \in Nat : Owns(h, i, x)' <=> Owns(h, i, x)
  PROVE  MapOK(x)'
<1>1. MapOK(x) BY DEF PInv, MapInv
<1>2. Owned(x)' <=> Owned(x) BY DEF Owned
<1> QED BY <1>1, <1>2 DEF MapOK, MapSeen

\* A call that is not about to write a mapping and does not come to it.
LEMMA AtKeeps ==
  ASSUME PTypeInv, NEW c \in PoolCores, NEW r, CallTo(c, r), pcall[c].pc \notin {"map", "clear"},
         odp2em' = odp2em, NEW x
  PROVE  MapSeen(x)
<1>1. \A d \in PoolCores : d # c => pcall'[d] = pcall[d] BY CallToIs
<1> QED BY <1>1 DEF MapSeen, At

-----------------------------------------------------------------------------
(* Steps of a call *)

\* A call that is on no pool and stays so, or begins or ends so.
Idles(c, r) ==
  /\ CallTo(c, r) /\ pcall[c].h = Undef /\ r.h = Undef /\ r.pc \in {"none", "scan"}
  /\ r.pc = "scan" => /\ r.cfg \in Cfgs /\ r.name \in {"startup", "app"} /\ Default \notin free
                      /\ \A d \in PoolCores : d # c => pcall[d].pc \notin Deleting
  /\ UNCHANGED <<free, pool, odp, odp2em>>
  /\ boot' \in Boot /\ PhaseSeen

\* Such a step changes no pool.
LEMMA IdleKeeps ==
  ASSUME PInv, NEW c \in PoolCores, NEW r, Idles(c, r)
  PROVE  PTypeInv' /\ OnePoolCall' /\ PCallsInv' /\ PoolsInv' /\ OdpInv' /\ MapInv'
<1>1. PTypeInv /\ OnePoolCall BY DEF PInv
<1>2. /\ CallTo(c, r) /\ UNCHANGED <<free, pool, odp, odp2em>> /\ boot' \in Boot /\ PhaseSeen
      /\ pcall[c].h = Undef /\ r.h = Undef /\ r.pc \in {"none", "scan"}
  BY DEF Idles
<1>3. /\ pcall' \in [PoolCores -> PoolCall] /\ pcall'[c] = r
      /\ \A d \in PoolCores : d # c => pcall'[d] = pcall[d]
  BY <1>1, <1>2, CallToIs
<1>4. PTypeInv' BY <1>1, <1>2, <1>3 DEF PTypeInv
<1>5. Joins(c, r) BY <1>2 DEF Joins, Idles, Creating, Deleting
<1>6. OnePoolCall' BY <1>1, <1>5, OneCallStep
<1>7. PCallsInv'
  <2>1. \A d \in PoolCores : PoolCallOK(d) BY DEF PInv, PCallsInv
  <2>2. CallsSee(c) BY <1>2, <1>3, <2>1, ConstantsAre DEF CallsSee, PoolCallOK
  <2>3. PoolCallOK(c)' BY <1>2, <1>3 DEF PoolCallOK, Idles
  <2> QED BY <2>2, <2>3, CallsKeep DEF PCallsInv
<1>8. PoolsInv'
  <2>1. \A h \in Handles : Quiet(h)' <=> Quiet(h) BY <1>2, <1>3, ConstantsAre DEF Quiet
  <2>2. PoolsSee(Undef) BY <1>2, <2>1 DEF PoolsSee
  <2> QED BY <2>2, PoolsKeep, ConstantsAre DEF PoolsInv
<1>9. OwnsSame BY <1>2, SubsSame
<1>10. OdpInv' BY <1>2, <1>9, OdpKeeps
<1>11. MapInv'
  <2>1. PoolCallOK(c) BY DEF PInv, PCallsInv
  <2>2. pcall[c].pc \notin {"map", "clear"} BY <1>2, <2>1 DEF PoolCallOK
  <2>3. \A x \in OdpIdx : MapSeen(x) BY <1>1, <1>2, <2>2, AtKeeps
  <2> QED BY <1>9, <2>3, MapKeeps DEF MapInv, OwnsSame
<1> QED BY <1>4, <1>6, <1>7, <1>8, <1>10, <1>11

\* What pool_init(), the application and pool_term() see of a step of a call.
BootSeen(c, r) ==
  /\ CallTo(c, r) /\ boot' = boot /\ pcall[c].pc # "none"
  /\ r.h \in {pcall[c].h, Undef}
  /\ r.pc = "scan" => pcall[c].pc = "scan"
  /\ r.pc \in Creating => pcall[c].pc \in Creating
  /\ free \subseteq free' /\ free' \subseteq Handles
  /\ \A h \in Handles : h # pcall[c].h =>
       /\ pool'[h] = pool[h] /\ (h \in free' => h \in free)
       /\ InUse(h) => InUse(h)'
  /\ \A h \in Handles : h = pcall[c].h =>
       /\ h \in free' \/ pool'[h].name = pool[h].name
       /\ boot.phase = "term" /\ r.h = Undef => h \in free' \/ InUse(h)'

\* pool_init() and pool_term() go on as before.
LEMMA BootKeeps ==
  ASSUME PInv, NEW c \in PoolCores, NEW r, BootSeen(c, r)
  PROVE  BootInv'
<1>1. PTypeInv /\ OnePoolCall /\ BootInv BY DEF PInv
<1>2. /\ CallTo(c, r) /\ boot' = boot /\ pcall[c].pc # "none" /\ r.h \in {pcall[c].h, Undef}
      /\ free \subseteq free' /\ free' \subseteq Handles
      /\ \A h \in Handles : h # pcall[c].h =>
           /\ pool'[h] = pool[h] /\ (h \in free' => h \in free)
           /\ InUse(h) => InUse(h)'
      /\ \A h \in Handles : h = pcall[c].h =>
           /\ h \in free' \/ pool'[h].name = pool[h].name
           /\ boot.phase = "term" /\ r.h = Undef => h \in free' \/ InUse(h)'
  BY DEF BootSeen
<1>3. /\ pcall' \in [PoolCores -> PoolCall] /\ pcall'[c] = r
      /\ \A d \in PoolCores : d # c => pcall'[d] = pcall[d]
  BY <1>1, <1>2, CallToIs
<1>4. boot.phase # "run" => c = 0 BY <1>1, <1>2 DEF BootInv
<1>5. boot.phase \notin {"done", "failed"} BY <1>1, <1>2, <1>4 DEF BootInv
<1>6. boot'.phase # "run" => \A d \in PoolCores : d # 0 => pcall'[d].pc = "none"
  BY <1>1, <1>2, <1>3, <1>4 DEF BootInv
<1>7. \A h \in Handles : Quiet(h)' => Quiet(h) \/ h = pcall[c].h BY <1>3 DEF Quiet
<1>8. \A h \in Handles : Quiet(h) => Quiet(h)' /\ h # pcall[c].h
  BY <1>2, <1>3, ConstantsAre DEF Quiet
<1>9. Default \in Handles /\ 0 \in PoolCores /\ IsFiniteSet(Handles) BY ConstantsAre
<1>10. InitOK'
  <2>1. CASE boot.phase # "init" BY <1>2, <2>1 DEF InitOK
  <2>2. CASE boot.phase = "init"
    <3>1. c = 0 /\ InitOK BY <1>1, <1>4, <2>2 DEF BootInv
    <3>2. Extra' \subseteq Extra /\ IsFiniteSet(Extra) BY <1>2, <1>9, FS_Subset DEF Extra
    <3>3. IsFiniteSet(Extra') /\ Cardinality(Extra') <= Cardinality(Extra) BY <3>2, FS_Subset
    <3>4. /\ Cardinality(Extra) \in Nat /\ Cardinality(Extra') \in Nat
      BY <3>2, <3>3, FS_CardinalityType
    <3>5. Ordered' = Ordered BY <1>2 DEF Ordered
    <3>6. Cardinality(Ordered) \in Nat
      <4>1. boot.next \in Nat BY <1>1, PTypes
      <4>2. IsFiniteSet(1..boot.next - 1) BY <4>1, FS_Interval
      <4>3. IsFiniteSet(Ordered) BY <4>2, FS_Subset DEF Ordered
      <4> QED BY <4>3, FS_CardinalityType
    <3>7. pcall'[0].pc = "scan" => pcall[0].pc = "scan" BY <1>3, <3>1 DEF BootSeen
    <3>8. Cardinality(Extra') + (IF pcall'[0].pc = "scan" THEN 1 ELSE 0) <= Cardinality(Ordered')
      BY <2>2, <3>1, <3>3, <3>4, <3>5, <3>6, <3>7 DEF InitOK
    <3>9. boot.next <= Len(boot.conf) + 1 BY <2>2, <3>1 DEF InitOK
    <3>10. ASSUME ~boot.dflt
           PROVE  /\ Default \notin free' /\ pool'[Default] = NoPool /\ pcall'[0].h # Default
                  /\ \A k \in 1..boot.next - 1 : ~IsDefault(boot.conf[k])
      BY <1>2, <1>3, <1>9, <2>2, <3>1, <3>10, ConstantsAre DEF InitOK
    <3>11. ASSUME boot.dflt
           PROVE  /\ Default \in free' \/ pool'[Default].name = "default"
                  /\ boot.next > Len(boot.conf) \/ \E k \in 1..boot.next - 1 : IsDefault(boot.conf[k])
      BY <1>2, <1>9, <2>2, <3>1, <3>11 DEF InitOK
    <3> QED BY <1>2, <3>8, <3>9, <3>10, <3>11 DEF InitOK
  <2> QED BY <2>1, <2>2
<1>11. RunOK' BY <1>1, <1>2, <1>8, <1>9 DEF BootInv, RunOK
<1>12. TermOK'
  <2>1. CASE boot.phase # "term" BY <1>2, <1>5, <2>1 DEF TermOK
  <2>2. CASE boot.phase = "term"
    <3>1. c = 0 /\ TermOK BY <1>1, <1>4, <2>2 DEF BootInv
    <3>2. ASSUME NEW h \in Handles, h < boot.next, h \notin free', Quiet(h)' PROVE InUse(h)'
      <4>1. CASE h # pcall[c].h
        <5>1. h \notin free /\ Quiet(h) BY <1>2, <1>7, <3>2, <4>1
        <5> QED BY <1>2, <2>2, <3>1, <3>2, <4>1, <5>1 DEF TermOK
      <4>2. CASE h = pcall[c].h
        <5>1. r.h = Undef BY <1>2, <1>3, <3>2, <4>2 DEF Quiet
        <5> QED BY <1>2, <2>2, <3>2, <4>2, <5>1
      <4> QED BY <4>1, <4>2
    <3>3. pcall'[0].h < boot.next /\ pcall'[0].pc \notin Creating
      <4>1. pcall[0].h < boot.next /\ pcall[0].pc \notin Creating BY <2>2, <3>1 DEF TermOK
      <4>2. Undef < boot.next BY <1>1, PTypes DEF Undef
      <4> QED BY <1>2, <1>3, <3>1, <4>1, <4>2 DEF BootSeen
    <3>4. ASSUME NEW h \in Handles, h >= boot.next
          PROVE  \A i \in DOMAIN pool'[h].subs : Live(h, i)'
      <4>1. pcall[0].h < boot.next /\ boot.next \in Nat /\ h \in Nat
        BY <1>1, <2>2, <3>1, PTypes, ConstantsAre DEF TermOK
      <4>2. h # pcall[c].h BY <3>1, <3>4, <4>1
      <4>3. pool'[h] = pool[h] BY <1>2, <4>2
      <4> QED BY <2>2, <3>1, <3>4, <4>3 DEF TermOK, Live
    <3> QED BY <1>2, <1>5, <3>2, <3>3, <3>4 DEF TermOK
  <2> QED BY <2>1, <2>2
<1> QED BY <1>2, <1>5, <1>6, <1>10, <1>11, <1>12 DEF BootInv

\* What the state of a call says of its pool.
LEMMA InCallIs ==
  ASSUME PInv, NEW c \in PoolCores, pcall[c].pc \notin {"none", "scan"}
  PROVE  /\ pcall[c].h \in Handles /\ pcall[c].h # Undef /\ pcall[c].h \notin free
         /\ ~Quiet(pcall[c].h) /\ PoolCallOK(c) /\ PoolOK(pcall[c].h) /\ pcall[c].i \in Nat
         /\ \A d \in PoolCores : d # c => pcall[d].h # pcall[c].h
         /\ pcall[c].pc \in Creating => \A d \in PoolCores : pcall[d].pc \notin Deleting
         /\ pcall[c].pc \in Deleting => \A d \in PoolCores : pcall[d].pc \notin Creating
<1>1. PoolCallOK(c) BY DEF PInv, PCallsInv
<1>2. pcall[c].h \in Handles /\ pcall[c].h # Undef /\ pcall[c].i \in Nat
  BY <1>1, PTypes DEF PInv, PoolCallOK
<1>3. PoolOK(pcall[c].h) BY <1>2 DEF PInv, PoolsInv
<1>4. pcall[c].h \notin free BY <1>1, <1>2 DEF PoolCallOK
<1>5. \A d \in PoolCores : d # c => pcall[d].h # pcall[c].h BY <1>2 DEF PInv, OnePoolCall
<1>6. /\ pcall[c].pc \in Creating => \A d \in PoolCores : pcall[d].pc \notin Deleting
      /\ pcall[c].pc \in Deleting => \A d \in PoolCores : pcall[d].pc \notin Creating
  BY DEF PInv, OnePoolCall, Busy
<1> QED BY <1>1, <1>2, <1>3, <1>4, <1>5, <1>6 DEF Quiet

\* create_subpools() fails: what is made so far is deleted.
LEMMA FailStep ==
  ASSUME PInv, Exclusive, NEW c \in PoolCores, CreateSubFail(c)
  PROVE  PInv'
<1>1. PTypeInv /\ OnePoolCall BY DEF PInv
<1>2. /\ pcall[c].pc = "sub" /\ \A d \in PoolCores : d # c => pcall[d].pc \notin Creating
      /\ pcall' = [pcall EXCEPT ![c] = [NoPoolCall EXCEPT !.pc = "destroy", !.h = pcall[c].h, !.i = 1]]
      /\ UNCHANGED <<free, pool, odp, odp2em, boot>>
  BY DEF CreateSubFail
<1>3. PICK h \in Handles : h = pcall[c].h /\ h # Undef /\ h \notin free /\ ~Quiet(h) /\ PoolCallOK(c)
  BY <1>2, InCallIs
<1>4. PICK r : r = [NoPoolCall EXCEPT !.pc = "destroy", !.h = h, !.i = 1] OBVIOUS
<1>5. /\ r.pc = "destroy" /\ r.h = h /\ r.i = 1 /\ r.idx = NoIdx /\ r \in PoolCall
  <2>1. <<>> \in Seq(Entry) OBVIOUS
  <2> QED BY <1>3, <1>4, <2>1 DEF NoPoolCall, PoolCall, Names
<1>6. CallTo(c, r) BY <1>2, <1>3, <1>4, <1>5 DEF CallTo
<1>7. /\ pcall' \in [PoolCores -> PoolCall] /\ pcall'[c] = r
      /\ \A d \in PoolCores : d # c => pcall'[d] = pcall[d]
  BY <1>1, <1>6, CallToIs
<1>8. PTypeInv' BY <1>1, <1>2, <1>7 DEF PTypeInv
<1>9. Joins(c, r) BY <1>1, <1>2, <1>3, <1>5, <1>6 DEF Joins, OnePoolCall, Creating, Deleting
<1>10. OnePoolCall' BY <1>1, <1>9, OneCallStep
<1>11. PCallsInv'
  <2>1. \A d \in PoolCores : PoolCallOK(d) BY DEF PInv, PCallsInv
  <2>2. CallsSee(c) BY <1>2, <1>7, <2>1, ConstantsAre DEF CallsSee, PoolCallOK
  <2>3. MadeAs(h, pcall[c].cfg) BY <1>2, <1>3 DEF PoolCallOK
  <2>4. DOMAIN pool[h].subs = 1..Len(pool[h].subs) /\ Len(pool[h].subs) \in Nat BY <1>1, PTypes
  <2>5. \A i \in 1..Len(pool[h].subs) : Live(h, i) /\ i > 1 - 1 BY <2>3, <2>4 DEF MadeAs
  <2>6. PoolCallOK(c)' BY <1>2, <1>3, <1>5, <1>7, <2>5 DEF PoolCallOK, Live
  <2> QED BY <2>2, <2>6, CallsKeep DEF PCallsInv
<1>12. PhaseSeen BY <1>1, <1>2, <1>3, <1>5, <1>7 DEF PhaseSeen
<1>13. PoolsInv'
  <2>1. \A g \in Handles : Quiet(g)' <=> Quiet(g) BY <1>3, <1>5, <1>7 DEF Quiet
  <2>2. PoolsSee(Undef) BY <1>2, <1>12, <2>1 DEF PoolsSee
  <2> QED BY <2>2, PoolsKeep, ConstantsAre DEF PoolsInv
<1>14. OwnsSame BY <1>2, SubsSame
<1>15. OdpInv' BY <1>2, <1>12, <1>14, OdpKeeps
<1>16. MapInv'
  <2>1. \A x \in OdpIdx : MapSeen(x) BY <1>1, <1>2, <1>6, AtKeeps
  <2> QED BY <1>14, <2>1, MapKeeps DEF MapInv, OwnsSame
<1>17. BootInv'
  <2>1. \A g : InUse(g)' <=> InUse(g) BY <1>2 DEF InUse
  <2>2. BootSeen(c, r)
    BY <1>1, <1>2, <1>3, <1>5, <1>6, <2>1 DEF BootSeen, PTypeInv, Creating
  <2> QED BY <2>2, BootKeeps
<1> QED BY <1>8, <1>10, <1>11, <1>13, <1>15, <1>16, <1>17 DEF PInv

\* The mapping of a new ODP pool is stored.
LEMMA MapStep ==
  ASSUME PInv, NEW c \in PoolCores, CreateMap(c)
  PROVE  PInv'
<1>1. PTypeInv /\ OnePoolCall BY DEF PInv
<1>2. PICK q : q = pcall[c] OBVIOUS
<1>3. /\ q.pc = "map" /\ odp2em' = [odp2em EXCEPT ![q.idx] = [pool |-> q.h, sub |-> q.i]]
      /\ pcall' = [pcall EXCEPT ![c] = IF q.i = Len(q.cfg) THEN NoPoolCall
                                     ELSE [q EXCEPT !.pc = "sub", !.i = q.i + 1]]
      /\ UNCHANGED <<free, pool, odp, boot>>
  BY <1>2 DEF CreateMap
<1>4. /\ q.h \in Handles /\ q.h # Undef /\ q.h \notin free /\ ~Quiet(q.h) /\ PoolCallOK(c) /\ q.i \in Nat
      /\ PoolOK(q.h) /\ \A d \in PoolCores : d # c => pcall[d].h # q.h
      /\ \A d \in PoolCores : pcall[d].pc \notin Deleting
  BY <1>2, <1>3, InCallIs DEF Creating
<1>5. /\ Ascends(q.cfg) /\ q.i \in 1..Len(q.cfg) /\ MadeAs(q.h, q.cfg) /\ Len(pool[q.h].subs) = q.i
      /\ q.idx \in OdpIdx /\ pool[q.h].subs[q.i].idx = q.idx
  BY <1>2, <1>3, <1>4 DEF PoolCallOK
<1>6. q \in PoolCall /\ Len(q.cfg) \in Nat BY <1>1, <1>2 DEF PTypeInv, PoolCall
<1>7. PICK r : r = IF q.i = Len(q.cfg) THEN NoPoolCall ELSE [q EXCEPT !.pc = "sub", !.i = q.i + 1]
  OBVIOUS
<1>8. /\ r \in PoolCall
      /\ q.i = Len(q.cfg) => r.pc = "none" /\ r.h = Undef
      /\ q.i # Len(q.cfg) => /\ r.pc = "sub" /\ r.h = q.h /\ r.i = q.i + 1 /\ r.cfg = q.cfg
                             /\ r.i \in 1..Len(q.cfg)
  <2>1. <<>> \in Seq(Entry) OBVIOUS
  <2>2. CASE q.i = Len(q.cfg) BY <1>7, <2>1, <2>2 DEF NoPoolCall, PoolCall, Names
  <2>3. CASE q.i # Len(q.cfg)
    <3>1. q.i + 1 \in 1..Len(q.cfg) /\ q.i + 1 \in Nat BY <1>4, <1>5, <1>6, <2>3
    <3>2. r = [q EXCEPT !.pc = "sub", !.i = q.i + 1] BY <1>7, <2>3
    <3>3. PICK n \in Nat : n = q.i + 1 BY <3>1
    <3>4. r.pc = "sub" /\ r.h = q.h /\ r.i = n /\ r.cfg = q.cfg /\ r \in PoolCall
      BY <1>6, <3>2, <3>3 DEF PoolCall
    <3> QED BY <2>3, <3>1, <3>3, <3>4
  <2> QED BY <2>2, <2>3
<1>9. CallTo(c, r) BY <1>3, <1>7, <1>8 DEF CallTo
<1>10. /\ pcall' \in [PoolCores -> PoolCall] /\ pcall'[c] = r
       /\ \A d \in PoolCores : d # c => pcall'[d] = pcall[d]
  BY <1>1, <1>9, CallToIs
<1>11. odp2em' \in [OdpIdx -> [pool : 0..NumPools, sub : Nat]]
  <2>1. [pool |-> q.h, sub |-> q.i] \in [pool : 0..NumPools, sub : Nat]
    BY <1>4, ConstantsAre
  <2> QED BY <1>1, <1>3, <2>1 DEF PTypeInv
<1>12. PTypeInv' BY <1>1, <1>3, <1>10, <1>11 DEF PTypeInv
<1>13. Joins(c, r) BY <1>4, <1>8, <1>9 DEF Joins, Deleting
<1>14. OnePoolCall' BY <1>1, <1>13, OneCallStep
<1>15. PCallsInv'
  <2>1. \A d \in PoolCores : PoolCallOK(d) BY DEF PInv, PCallsInv
  <2>2. CallsSee(c) BY <1>3, <1>10, <2>1, ConstantsAre DEF CallsSee, PoolCallOK
  <2>3. ASSUME q.i = Len(q.cfg) PROVE PoolCallOK(c)' BY <1>8, <1>10, <2>3 DEF PoolCallOK
  <2>4. ASSUME q.i # Len(q.cfg) PROVE PoolCallOK(c)'
    <3>1. MadeAs(q.h, q.cfg)' BY <1>3, <1>5 DEF MadeAs, Live
    <3>2. Len(pool'[q.h].subs) = r.i - 1 BY <1>3, <1>4, <1>5, <1>8, <2>4
    <3> QED BY SMTT(30), <1>3, <1>4, <1>5, <1>8, <1>10, <2>4, <3>1, <3>2 DEF PoolCallOK, MadeAs, Live
  <2> QED BY <2>2, <2>3, <2>4, CallsKeep DEF PCallsInv
<1>16. PhaseSeen
  <2>1. boot.phase # "term"
    <3>1. boot.phase = "term" => c = 0 BY <1>2, <1>3 DEF PInv, BootInv
    <3> QED BY <1>2, <1>3, <3>1 DEF PInv, BootInv, TermOK, Creating
  <2> QED BY <1>3, <2>1 DEF PhaseSeen
<1>17. PoolsInv'
  <2>1. \A g \in Handles : g # q.h => (Quiet(g)' <=> Quiet(g)) BY <1>2, <1>8, <1>10, ConstantsAre DEF Quiet
  <2>2. PoolsSee(q.h) BY <1>3, <1>16, <2>1 DEF PoolsSee
  <2>3. PoolOK(q.h)'
    <3>1. \A i \in DOMAIN pool[q.h].subs : Live(q.h, i) BY <1>5 DEF MadeAs
    <3>2. \A i : Live(q.h, i)' <=> Live(q.h, i) BY <1>3 DEF Live
    <3>3. InUse(q.h)' <=> InUse(q.h) BY <1>3 DEF InUse
    <3> QED BY <1>3, <1>4, <3>1, <3>2, <3>3 DEF PoolOK
  <2> QED BY <2>2, <2>3, PoolsKeep DEF PoolsInv
<1>18. OwnsSame BY <1>3, SubsSame
<1>19. OdpInv' BY <1>3, <1>16, <1>18, OdpKeeps
<1>20. MapInv'
  <2>1. ASSUME NEW x \in OdpIdx, x # q.idx PROVE MapOK(x)'
    <3>1. odp2em'[x] = odp2em[x] BY <1>1, <1>3, <2>1 DEF PTypeInv
    <3>2. MapSeen(x) BY <1>2, <1>3, <1>10, <2>1, <3>1 DEF MapSeen, At
    <3> QED BY <1>18, <3>2, MapKeeps DEF OwnsSame
  <2>2. MapOK(q.idx)'
    <3>1. odp2em'[q.idx] = [pool |-> q.h, sub |-> q.i] BY <1>1, <1>3, <1>5 DEF PTypeInv
    <3>2. Owns(q.h, q.i, q.idx)
      <4>1. DOMAIN pool[q.h].subs = 1..Len(pool[q.h].subs) BY <1>1, <1>4, PTypes
      <4> QED BY <1>4, <1>5, <4>1 DEF Owns
    <3>3. \A h \in Handles, i \in Nat : Owns(h, i, q.idx)' => h = q.h /\ i = q.i
      BY <1>4, <1>5, <1>18, <3>2 DEF OwnsSame, PInv, OdpInv
    <3>4. Owned(q.idx)' BY <1>4, <1>5, <1>18, <3>2 DEF OwnsSame, Owned
    <3> QED BY <3>1, <3>3, <3>4 DEF MapOK
  <2> QED BY <2>1, <2>2 DEF MapInv
<1>21. BootInv'
  <2>1. \A g : InUse(g)' <=> InUse(g) BY <1>3 DEF InUse
  <2>2. r.h \in {q.h, Undef} /\ r.pc \in {"none", "sub"} BY <1>8
  <2>3. boot.phase # "term"
    <3>1. boot.phase = "term" => c = 0 BY <1>2, <1>3 DEF PInv, BootInv
    <3> QED BY <1>2, <1>3, <3>1 DEF PInv, BootInv, TermOK, Creating
  <2>4. BootSeen(c, r)
    BY <1>1, <1>2, <1>3, <1>4, <1>9, <2>1, <2>2, <2>3 DEF BootSeen, PTypeInv, Creating
  <2> QED BY <2>4, BootKeeps
<1> QED BY <1>12, <1>14, <1>15, <1>17, <1>19, <1>20, <1>21 DEF PInv

\* The mapping of an ODP pool that is gone is cleared.
LEMMA ClearStep ==
  ASSUME PInv, NEW c \in PoolCores, Clear(c)
  PROVE  PInv'
<1>1. PTypeInv /\ OnePoolCall BY DEF PInv
<1>2. PICK q : q = pcall[c] OBVIOUS
<1>3. /\ q.pc = "clear" /\ odp2em' = [odp2em EXCEPT ![q.idx] = NoMap]
      /\ UNCHANGED <<free, pool, odp, boot>>
  BY <1>2 DEF Clear
<1>4. /\ q.h \in Handles /\ q.h # Undef /\ q.h \notin free /\ ~Quiet(q.h) /\ PoolCallOK(c) /\ q.i \in Nat
      /\ \A d \in PoolCores : d # c => pcall[d].h # q.h
      /\ \A d \in PoolCores : pcall[d].pc \notin Creating
  BY <1>2, <1>3, InCallIs DEF Deleting
<1>5. /\ q.i # 0 /\ q.idx \in OdpIdx /\ ~odp[q.idx].live
      /\ \A i \in 1..Len(pool[q.h].subs) : Live(q.h, i) <=> i > q.i
  BY <1>2, <1>3, <1>4 DEF PoolCallOK
<1>6. q \in PoolCall BY <1>1, <1>2 DEF PTypeInv
<1>7. PICK n \in Nat : n = q.i + 1 BY <1>4
<1>8. PICK r : r = [q EXCEPT !.pc = "destroy", !.i = n] OBVIOUS
<1>9. r \in PoolCall /\ r.pc = "destroy" /\ r.h = q.h /\ r.i = n
  BY <1>6, <1>7, <1>8 DEF PoolCall
<1>10. CallTo(c, r)
  <2>1. pcall \in [PoolCores -> PoolCall] BY <1>1 DEF PTypeInv
  <2>2. pcall' = [pcall EXCEPT ![c].pc = "destroy", ![c].i = @ + 1] BY DEF Clear
  <2>3. pcall' = [pcall EXCEPT ![c] = r] BY <1>2, <1>6, <1>7, <1>8, <2>1, <2>2 DEF PoolCall
  <2> QED BY <1>9, <2>3 DEF CallTo
<1>11. /\ pcall' \in [PoolCores -> PoolCall] /\ pcall'[c] = r
       /\ \A d \in PoolCores : d # c => pcall'[d] = pcall[d]
  BY <1>1, <1>10, CallToIs
<1>12. odp2em' \in [OdpIdx -> [pool : 0..NumPools, sub : Nat]]
  <2>1. NoMap \in [pool : 0..NumPools, sub : Nat] BY ConstantsAre DEF NoMap, Undef
  <2> QED BY <1>1, <1>3, <2>1 DEF PTypeInv
<1>13. PTypeInv' BY <1>1, <1>3, <1>11, <1>12 DEF PTypeInv
<1>14. Joins(c, r) BY <1>4, <1>9, <1>10 DEF Joins, Creating
<1>15. OnePoolCall' BY <1>1, <1>14, OneCallStep
<1>16. PCallsInv'
  <2>1. \A d \in PoolCores : PoolCallOK(d) BY DEF PInv, PCallsInv
  <2>2. CallsSee(c) BY <1>3, <1>11, <2>1, ConstantsAre DEF CallsSee, PoolCallOK
  <2>3. n - 1 = q.i BY <1>4, <1>7
  <2>4. r.i # 0 /\ \A i \in 1..Len(pool[q.h].subs) : Live(q.h, i) <=> i > r.i - 1
    BY <1>4, <1>5, <1>7, <1>9, <2>3
  <2>5. PoolCallOK(c)' BY <1>3, <1>4, <1>9, <1>11, <2>4 DEF PoolCallOK, Live
  <2> QED BY <2>2, <2>5, CallsKeep DEF PCallsInv
<1>17. PhaseSeen BY <1>1, <1>3, PTypes DEF PhaseSeen, PInv, BootInv
<1>18. PoolsInv'
  <2>1. \A g \in Handles : Quiet(g)' <=> Quiet(g) BY <1>2, <1>9, <1>11 DEF Quiet
  <2>2. PoolsSee(Undef) BY <1>3, <1>17, <2>1 DEF PoolsSee
  <2> QED BY <2>2, PoolsKeep, ConstantsAre DEF PoolsInv
<1>19. OwnsSame BY <1>3, SubsSame
<1>20. OdpInv' BY <1>3, <1>17, <1>19, OdpKeeps
<1>21. MapInv'
  <2>1. ASSUME NEW x \in OdpIdx, x # q.idx PROVE MapOK(x)'
    <3>1. odp2em'[x] = odp2em[x] BY <1>1, <1>3, <2>1 DEF PTypeInv
    <3>2. MapSeen(x) BY <1>2, <1>3, <1>11, <2>1, <3>1 DEF MapSeen, At
    <3> QED BY <1>19, <3>2, MapKeeps DEF OwnsSame
  <2>2. MapOK(q.idx)'
    <3>1. odp2em'[q.idx] = NoMap BY <1>1, <1>3, <1>5 DEF PTypeInv
    <3>2. ~Owned(q.idx) BY <1>5 DEF PInv, OdpInv, OdpOK
    <3>3. \A h \in Handles, i \in Nat : ~Owns(h, i, q.idx)'
      BY <1>5, <1>19, <3>2 DEF OwnsSame, Owned
    <3> QED BY <3>1, <3>3 DEF MapOK
  <2> QED BY <2>1, <2>2 DEF MapInv
<1>22. BootInv'
  <2>1. \A g : InUse(g)' <=> InUse(g) BY <1>3 DEF InUse
  <2>2. BootSeen(c, r)
    BY <1>1, <1>2, <1>3, <1>4, <1>9, <1>10, <2>1 DEF BootSeen, PTypeInv, Creating
  <2> QED BY <2>2, BootKeeps
<1> QED BY <1>13, <1>15, <1>16, <1>18, <1>20, <1>21, <1>22 DEF PInv

\* pool_delete() gives the element back.
LEMMA DeleteEndStep ==
  ASSUME PInv, NEW c \in PoolCores, DeleteEnd(c)
  PROVE  PInv'
<1>1. PTypeInv /\ OnePoolCall BY DEF PInv
<1>2. PICK h : h = pcall[c].h OBVIOUS
<1>3. /\ pcall[c].pc = "destroy" /\ pcall[c].i > Len(pool[h].subs)
      /\ pool' = [pool EXCEPT ![h] = NoPool] /\ free' = free \cup {h}
      /\ pcall' = [pcall EXCEPT ![c] = NoPoolCall]
      /\ UNCHANGED <<odp, odp2em, boot>>
  BY <1>2 DEF DeleteEnd
<1>4. /\ h \in Handles /\ h # Undef /\ h \notin free /\ ~Quiet(h) /\ PoolCallOK(c) /\ pcall[c].i \in Nat
      /\ \A d \in PoolCores : d # c => pcall[d].h # h
      /\ \A d \in PoolCores : pcall[d].pc \notin Creating
  BY <1>2, <1>3, InCallIs DEF Deleting
<1>5. Len(pool[h].subs) \in Nat /\ DOMAIN pool[h].subs = 1..Len(pool[h].subs) BY <1>1, <1>4, PTypes
<1>6. \A i \in DOMAIN pool[h].subs : ~Live(h, i)
  BY <1>2, <1>3, <1>4, <1>5 DEF PoolCallOK
<1>7. NoPoolCall \in PoolCall /\ NoPoolCall.pc = "none" /\ NoPoolCall.h = Undef
  <2>1. <<>> \in Seq(Entry) OBVIOUS
  <2> QED BY <2>1 DEF NoPoolCall, PoolCall, Names
<1>8. CallTo(c, NoPoolCall) BY <1>3, <1>7 DEF CallTo
<1>9. /\ pcall' \in [PoolCores -> PoolCall] /\ pcall'[c] = NoPoolCall
      /\ \A d \in PoolCores : d # c => pcall'[d] = pcall[d]
  BY <1>1, <1>8, CallToIs
<1>10. /\ pool' \in [Handles -> [name : Names, subs : Seq(Subpool)]]
       /\ pool'[h] = NoPool /\ \A g \in Handles : g # h => pool'[g] = pool[g]
  <2>1. <<>> \in Seq(Subpool) OBVIOUS
  <2>2. NoPool \in [name : Names, subs : Seq(Subpool)] BY <2>1 DEF NoPool, Names
  <2> QED BY <1>1, <1>3, <1>4, <2>2 DEF PTypeInv
<1>11. PTypeInv' BY <1>1, <1>3, <1>4, <1>9, <1>10 DEF PTypeInv
<1>12. Joins(c, NoPoolCall) BY <1>7, <1>8 DEF Joins, Creating, Deleting
<1>13. OnePoolCall' BY <1>1, <1>12, OneCallStep
<1>14. PCallsInv'
  <2>1. \A d \in PoolCores : PoolCallOK(d) BY DEF PInv, PCallsInv
  <2>2. \A d \in PoolCores : pcall[d].pc # "scan" BY <1>4 DEF Creating
  <2>3. ASSUME NEW d \in PoolCores, d # c, pcall[d].h \in Handles
        PROVE  pool'[pcall[d].h] = pool[pcall[d].h] /\ pcall[d].h \notin free'
    <3>1. pcall[d].h # h /\ pcall[d].h # Undef BY <1>4, <2>3, ConstantsAre
    <3>2. pcall[d].h \notin free BY <2>1, <3>1 DEF PoolCallOK
    <3> QED BY <1>3, <1>10, <2>3, <3>1, <3>2
  <2>4. \A d \in PoolCores : pcall[d].pc = "clear" => ~odp'[pcall[d].idx].live
    BY <1>3, <2>1 DEF PoolCallOK
  <2>5. CallsSee(c) BY <1>9, <2>2, <2>3, <2>4 DEF CallsSee
  <2>6. PoolCallOK(c)' BY <1>7, <1>9 DEF PoolCallOK
  <2> QED BY <2>5, <2>6, CallsKeep DEF PCallsInv
<1>15. PhaseSeen
  <2>1. boot.phase # "term" \/ \A d \in PoolCores : pcall'[d].h = Undef
    <3>1. CASE boot.phase = "term"
      <4>1. c = 0 /\ \A d \in PoolCores : d # 0 => pcall[d].pc = "none"
        BY <1>3, <3>1 DEF PInv, BootInv
      <4>2. \A d \in PoolCores : d # 0 => pcall[d].h = Undef BY <4>1 DEF PInv, PCallsInv, PoolCallOK
      <4> QED BY <1>7, <1>9, <4>1, <4>2
    <3> QED BY <3>1
  <2> QED BY <1>3, <2>1 DEF PhaseSeen
<1>16. PoolsInv'
  <2>1. \A g \in Handles : g # h => (Quiet(g)' <=> Quiet(g)) BY <1>2, <1>7, <1>9, ConstantsAre DEF Quiet
  <2>2. PoolsSee(h) BY <1>3, <1>10, <1>15, <2>1 DEF PoolsSee
  <2>3. PoolOK(h)'
    <3>1. DOMAIN NoPool.subs = {} /\ Len(NoPool.subs) = 0 /\ NoPool.name # "default" BY DEF NoPool
    <3>2. 0 <= Cardinality(OdpIdx) BY ConstantsAre, FS_CardinalityType
    <3>3. ~InUse(h)' BY <1>10, <3>1 DEF InUse
    <3> QED BY <1>10, <3>1, <3>2, <3>3 DEF PoolOK, Ascends
  <2> QED BY <2>2, <2>3, PoolsKeep DEF PoolsInv
<1>17. OwnsSame
  <2>1. ASSUME NEW g \in Handles, NEW i \in Nat, NEW x \in OdpIdx PROVE Owns(g, i, x)' <=> Owns(g, i, x)
    <3>1. CASE g # h BY <1>10, <3>1 DEF Owns
    <3>2. CASE g = h
      <4>1. ~Owns(h, i, x) BY <1>6, ConstantsAre DEF Owns, Live
      <4>2. pool'[h].subs = <<>> BY <1>10 DEF NoPool
      <4>3. ~Owns(h, i, x)' BY <4>2 DEF Owns
      <4> QED BY <3>2, <4>1, <4>3
    <3> QED BY <3>1, <3>2
  <2> QED BY <2>1 DEF OwnsSame
<1>18. OdpInv' BY <1>3, <1>15, <1>17, OdpKeeps
<1>19. MapInv'
  <2>1. \A x \in OdpIdx : MapSeen(x) BY <1>1, <1>3, <1>8, AtKeeps
  <2> QED BY <1>17, <2>1, MapKeeps DEF MapInv, OwnsSame
<1>20. BootInv'
  <2>1. \A g \in Handles : g # h => (InUse(g)' <=> InUse(g)) BY <1>3, <1>10 DEF InUse
  <2>2. free' \subseteq Handles /\ free \subseteq free' /\ h \in free'
        /\ \A g \in Handles : g # h => (g \in free' => g \in free)
    BY <1>1, <1>3, <1>4 DEF PTypeInv
  <2>3. BootSeen(c, NoPoolCall)
    BY <1>2, <1>3, <1>7, <1>8, <1>10, <2>1, <2>2 DEF BootSeen, Creating
  <2> QED BY <2>3, BootKeeps
<1> QED BY <1>11, <1>13, <1>14, <1>16, <1>18, <1>19, <1>20 DEF PInv

\* Only the call of core c changes, and with it how pool e is looked at.
CallOnly(c, r, e) ==
  /\ Joins(c, r) /\ pcall[c].pc \notin {"map", "clear"}
  /\ pcall[c].h \in {e, Undef} /\ r.h \in {e, Undef}
  /\ UNCHANGED <<free, pool, odp, odp2em>>
  /\ boot' \in Boot /\ PhaseSeen

\* Such a step keeps all but what is said of the call and of its pool.
LEMMA CallOnlyKeeps ==
  ASSUME PInv, NEW c \in PoolCores, NEW r, NEW e \in Handles, CallOnly(c, r, e),
         PoolCallOK(c)', PoolOK(e)'
  PROVE  PTypeInv' /\ OnePoolCall' /\ PCallsInv' /\ PoolsInv' /\ OdpInv' /\ MapInv'
<1>1. PTypeInv /\ OnePoolCall BY DEF PInv
<1>2. /\ Joins(c, r) /\ pcall[c].pc \notin {"map", "clear"}
      /\ pcall[c].h \in {e, Undef} /\ r.h \in {e, Undef}
      /\ UNCHANGED <<free, pool, odp, odp2em>>
      /\ boot' \in Boot /\ PhaseSeen
  BY DEF CallOnly
<1>3. CallTo(c, r) BY <1>2 DEF Joins
<1>4. /\ pcall' \in [PoolCores -> PoolCall] /\ pcall'[c] = r
      /\ \A d \in PoolCores : d # c => pcall'[d] = pcall[d]
  BY <1>1, <1>3, CallToIs
<1>5. PTypeInv' BY <1>1, <1>2, <1>4 DEF PTypeInv
<1>6. OnePoolCall' BY <1>1, <1>2, OneCallStep
<1>7. PCallsInv'
  <2>1. \A d \in PoolCores : PoolCallOK(d) BY DEF PInv, PCallsInv
  <2>2. CallsSee(c) BY <1>2, <1>4, <2>1, ConstantsAre DEF CallsSee, PoolCallOK
  <2> QED BY <2>2, CallsKeep DEF PCallsInv
<1>8. PoolsInv'
  <2>1. \A h \in Handles : h # e => (Quiet(h)' <=> Quiet(h)) BY <1>2, <1>4, ConstantsAre DEF Quiet
  <2>2. PoolsSee(e) BY <1>2, <2>1 DEF PoolsSee
  <2> QED BY <2>2, PoolsKeep DEF PoolsInv
<1>9. OwnsSame BY <1>2, SubsSame
<1>10. OdpInv' BY <1>2, <1>9, OdpKeeps
<1>11. MapInv'
  <2>1. \A x \in OdpIdx : MapSeen(x) BY <1>1, <1>2, <1>3, AtKeeps
  <2> QED BY <1>9, <2>1, MapKeeps DEF MapInv, OwnsSame
<1> QED BY <1>5, <1>6, <1>7, <1>8, <1>10, <1>11

\* A core that ends its call.
LEMMA NoCallIs ==
  ASSUME PTypeInv, NEW c \in PoolCores, pcall' = [pcall EXCEPT ![c] = NoPoolCall]
  PROVE  /\ NoPoolCall.pc = "none" /\ NoPoolCall.h = Undef
         /\ CallTo(c, NoPoolCall) /\ Joins(c, NoPoolCall) /\ PoolCallOK(c)'
<1>1. NoPoolCall \in PoolCall /\ NoPoolCall.pc = "none" /\ NoPoolCall.h = Undef
  <2>1. <<>> \in Seq(Entry) OBVIOUS
  <2> QED BY <2>1 DEF NoPoolCall, PoolCall, Names
<1>2. CallTo(c, NoPoolCall) BY <1>1 DEF CallTo
<1>3. pcall'[c] = NoPoolCall BY <1>2, CallToIs
<1> QED BY <1>1, <1>2, <1>3 DEF Joins, Creating, Deleting, PoolCallOK

\* odp_pool_destroy() fails.
LEMMA DestroyFails ==
  ASSUME PInv, NEW c \in PoolCores, NEW h, h = pcall[c].h, NEW i, i = pcall[c].i,
         pcall[c].pc = "destroy", i <= Len(pool[h].subs),
         ~Live(h, i) \/ odp[pool[h].subs[i].idx].used > 0,
         pcall' = [pcall EXCEPT ![c] = NoPoolCall], UNCHANGED <<free, pool, odp, odp2em, boot>>
  PROVE  PInv'
<1>1. PTypeInv /\ OnePoolCall BY DEF PInv
<1>2. /\ h \in Handles /\ h # Undef /\ h \notin free /\ ~Quiet(h) /\ PoolCallOK(c) /\ i \in Nat
      /\ PoolOK(h) /\ \A d \in PoolCores : d # c => pcall[d].h # h
  BY InCallIs
<1>3. i # 0 /\ \A j \in 1..Len(pool[h].subs) : Live(h, j) <=> j > i - 1
  BY <1>2 DEF PoolCallOK
<1>4. Len(pool[h].subs) \in Nat /\ DOMAIN pool[h].subs = 1..Len(pool[h].subs) BY <1>1, <1>2, PTypes
<1>5. i \in DOMAIN pool[h].subs /\ i > i - 1 BY SMTT(30), <1>2, <1>3, <1>4
<1>6. Live(h, i) BY <1>3, <1>4, <1>5
<1>7. InUse(h) BY <1>5, <1>6 DEF InUse, Live
<1>8. boot.phase = "term" BY <1>2, <1>7 DEF PoolOK
<1>9. /\ NoPoolCall.pc = "none" /\ NoPoolCall.h = Undef
      /\ CallTo(c, NoPoolCall) /\ Joins(c, NoPoolCall) /\ PoolCallOK(c)'
  BY <1>1, NoCallIs
<1>10. PhaseSeen BY <1>8 DEF PhaseSeen
<1>11. PoolOK(h)'
  <2>1. \A j : Live(h, j)' <=> Live(h, j) BY DEF Live
  <2> QED BY <1>2, <1>8, <2>1 DEF PoolOK
<1>12. CallOnly(c, NoPoolCall, h) BY <1>1, <1>9, <1>10 DEF CallOnly, PTypeInv
<1>13. PTypeInv' /\ OnePoolCall' /\ PCallsInv' /\ PoolsInv' /\ OdpInv' /\ MapInv'
  BY <1>2, <1>9, <1>11, <1>12, CallOnlyKeeps
<1>14. \A g : InUse(g)' <=> InUse(g) BY DEF InUse
<1>15. BootSeen(c, NoPoolCall) BY <1>1, <1>7, <1>9, <1>14 DEF BootSeen, PTypeInv, Creating
<1>16. BootInv' BY <1>15, BootKeeps
<1> QED BY <1>13, <1>16 DEF PInv

\* odp_pool_destroy() takes the ODP pool x out of pool h.
Destroyed(c, h, i, x) ==
  /\ h = pcall[c].h /\ i = pcall[c].i /\ pcall[c].pc = "destroy" /\ i \in 1..Len(pool[h].subs)
  /\ x \in OdpIdx /\ x = pool[h].subs[i].idx
  /\ odp' = [odp EXCEPT ![x] = NoOdp]
  /\ pool' = [pool EXCEPT ![h].subs[i] = [idx |-> NoIdx, size |-> 0]]
  /\ pcall' = [pcall EXCEPT ![c].pc = "clear", ![c].idx = x]
  /\ UNCHANGED <<free, odp2em, boot>>

Emptied(h, i) ==
  /\ pool' \in [Handles -> [name : Names, subs : Seq(Subpool)]]
  /\ \A g \in Handles : pool'[g].name = pool[g].name /\ (g # h => pool'[g] = pool[g])
  /\ DOMAIN pool'[h].subs = DOMAIN pool[h].subs /\ Len(pool'[h].subs) = Len(pool[h].subs)
  /\ pool'[h].subs[i] = [idx |-> NoIdx, size |-> 0]
  /\ \A j \in DOMAIN pool[h].subs : j # i => pool'[h].subs[j] = pool[h].subs[j]

\* The subpool is left without an ODP pool.
LEMMA DestroyedPool ==
  ASSUME PTypeInv, NEW c, NEW h \in Handles, NEW i, NEW x, Destroyed(c, h, i, x)
  PROVE  Emptied(h, i)
<1>1. pool \in [Handles -> [name : Names, subs : Seq(Subpool)]] BY DEF PTypeInv
<1>2. PICK s \in Seq(Subpool) : s = pool[h].subs BY <1>1
<1>3. PICK z : z = [idx |-> NoIdx, size |-> 0] OBVIOUS
<1>4. z \in Subpool BY <1>3 DEF Subpool
<1>5. PICK t : t = [s EXCEPT ![i] = z] OBVIOUS
<1>6. i \in 1..Len(s) BY <1>2 DEF Destroyed
<1>7. /\ t \in Seq(Subpool) /\ DOMAIN t = DOMAIN s /\ Len(t) = Len(s) /\ t[i] = z
      /\ \A j \in DOMAIN s : j # i => t[j] = s[j]
  BY <1>4, <1>5, <1>6
<1>8. PICK p : p = [pool[h] EXCEPT !.subs = t] OBVIOUS
<1>9. p.name = pool[h].name /\ p.subs = t /\ p \in [name : Names, subs : Seq(Subpool)]
  BY <1>1, <1>7, <1>8
<1>10. pool' = [pool EXCEPT ![h].subs[i] = z] BY <1>3 DEF Destroyed
<1>11. pool' = [pool EXCEPT ![h] = p] BY <1>1, <1>2, <1>5, <1>8, <1>10
<1> QED BY <1>1, <1>2, <1>3, <1>7, <1>9, <1>11 DEF Emptied

\* The invariant after it: only the mapping still names the ODP pool.
LEMMA DestroyedStep ==
  ASSUME PInv, NEW c \in PoolCores, NEW h, NEW i, NEW x, Destroyed(c, h, i, x)
  PROVE  PInv'
<1>1. PTypeInv /\ OnePoolCall /\ Destroyed(c, h, i, x) BY DEF PInv
<1>2. PICK q : q = pcall[c] OBVIOUS
<1>3. /\ h = q.h /\ i = q.i /\ q.pc = "destroy" /\ i \in 1..Len(pool[h].subs)
      /\ x \in OdpIdx /\ x = pool[h].subs[i].idx
      /\ odp' = [odp EXCEPT ![x] = NoOdp]
      /\ pcall' = [pcall EXCEPT ![c].pc = "clear", ![c].idx = x]
      /\ UNCHANGED <<free, odp2em, boot>>
  BY <1>2 DEF Destroyed
<1>4. /\ h \in Handles /\ h # Undef /\ h \notin free /\ ~Quiet(h) /\ PoolCallOK(c) /\ i \in Nat
      /\ PoolOK(h) /\ \A d \in PoolCores : d # c => pcall[d].h # h
      /\ \A d \in PoolCores : pcall[d].pc \notin Creating
  BY <1>2, <1>3, InCallIs DEF Deleting
<1>5. /\ pool' \in [Handles -> [name : Names, subs : Seq(Subpool)]]
      /\ \A g \in Handles : pool'[g].name = pool[g].name /\ (g # h => pool'[g] = pool[g])
      /\ DOMAIN pool'[h].subs = DOMAIN pool[h].subs /\ Len(pool'[h].subs) = Len(pool[h].subs)
      /\ pool'[h].subs[i] = [idx |-> NoIdx, size |-> 0]
      /\ \A j \in DOMAIN pool[h].subs : j # i => pool'[h].subs[j] = pool[h].subs[j]
  <2>1. Emptied(h, i) BY <1>1, <1>4, DestroyedPool
  <2> QED BY <2>1 DEF Emptied
<1>6. Len(pool[h].subs) \in Nat /\ DOMAIN pool[h].subs = 1..Len(pool[h].subs) BY <1>1, <1>4, PTypes
<1>7. i # 0 /\ \A j \in 1..Len(pool[h].subs) : Live(h, j) <=> j > i - 1
  BY <1>2, <1>3, <1>4 DEF PoolCallOK
<1>8. PICK r : r = [q EXCEPT !.pc = "clear", !.idx = x] OBVIOUS
<1>9. q \in PoolCall BY <1>1, <1>2 DEF PTypeInv
<1>10. r \in PoolCall /\ r.pc = "clear" /\ r.h = h /\ r.i = i /\ r.idx = x
  BY <1>3, <1>8, <1>9 DEF PoolCall
<1>11. CallTo(c, r)
  <2>1. pcall \in [PoolCores -> PoolCall] BY <1>1 DEF PTypeInv
  <2>2. pcall' = [pcall EXCEPT ![c] = r] BY <1>2, <1>3, <1>8, <1>9, <2>1 DEF PoolCall
  <2> QED BY <1>10, <2>2 DEF CallTo
<1>12. /\ pcall' \in [PoolCores -> PoolCall] /\ pcall'[c] = r
       /\ \A d \in PoolCores : d # c => pcall'[d] = pcall[d]
  BY <1>1, <1>11, CallToIs
<1>13. /\ odp' \in [OdpIdx -> OdpPool] /\ odp'[x] = NoOdp
       /\ \A y \in OdpIdx : y # x => odp'[y] = odp[y]
  <2>1. NoOdp \in OdpPool BY DEF NoOdp, OdpPool
  <2> QED BY <1>1, <1>3, <2>1 DEF PTypeInv
<1>14. PTypeInv' BY <1>1, <1>3, <1>5, <1>12, <1>13 DEF PTypeInv
<1>15. Joins(c, r) BY <1>4, <1>10, <1>11 DEF Joins, Creating
<1>16. OnePoolCall' BY <1>1, <1>15, OneCallStep
<1>17. Owns(h, i, x) BY <1>3, <1>6 DEF Owns
<1>18. odp[x].live BY <1>3, <1>4, <1>17 DEF PInv, OdpInv, OdpOK, Owned
<1>19. ASSUME NEW g \in Handles, NEW j \in Nat, NEW y \in OdpIdx, y # x
       PROVE  Owns(g, j, y)' <=> Owns(g, j, y)
  <2>1. CASE g # h BY <1>5, <2>1 DEF Owns
  <2>2. CASE g = h /\ j # i BY <1>5, <2>2 DEF Owns
  <2>3. CASE g = h /\ j = i
    <3>1. ~Owns(g, j, y) BY <1>3, <1>19, <2>3 DEF Owns
    <3>2. ~Owns(g, j, y)' BY <1>5, <2>3, ConstantsAre DEF Owns
    <3> QED BY <3>1, <3>2
  <2> QED BY <2>1, <2>2, <2>3
<1>20. ASSUME NEW g \in Handles, NEW j \in Nat PROVE ~Owns(g, j, x)'
  <2>1. Owns(g, j, x) => g = h /\ j = i BY <1>3, <1>4, <1>17 DEF PInv, OdpInv
  <2>2. CASE g # h BY <1>5, <2>1, <2>2 DEF Owns
  <2>3. CASE g = h /\ j # i BY <1>5, <2>1, <2>3 DEF Owns
  <2>4. CASE g = h /\ j = i BY SMTT(30), <1>3, <1>5, <2>4, ConstantsAre DEF Owns
  <2> QED BY <2>2, <2>3, <2>4
<1>21. ASSUME NEW g \in Handles, g # h, NEW j \in DOMAIN pool[g].subs, Live(g, j)
       PROVE  pool[g].subs[j].idx \in OdpIdx /\ pool[g].subs[j].idx # x
  <2>1. j \in Nat /\ pool[g].subs[j].idx \in OdpIdx BY <1>1, <1>21, PTypes DEF Live
  <2>2. CASE pool[g].subs[j].idx = x
    <3>1. Owns(g, j, x) BY <2>2 DEF Owns
    <3> QED BY <1>3, <1>4, <1>17, <1>21, <2>1, <3>1 DEF PInv, OdpInv
  <2> QED BY <2>1, <2>2
<1>22. PCallsInv'
  <2>1. \A d \in PoolCores : PoolCallOK(d) BY DEF PInv, PCallsInv
  <2>2. ASSUME NEW d \in PoolCores, d # c
        PROVE  /\ pcall'[d] = pcall[d]
               /\ pcall[d].h \in Handles => /\ pool'[pcall[d].h].subs = pool[pcall[d].h].subs
                                            /\ pcall[d].h \notin free'
               /\ pcall[d].pc = "scan" => Default \notin free'
               /\ pcall[d].pc = "clear" => ~odp'[pcall[d].idx].live
    <3>1. pcall'[d] = pcall[d] /\ pcall[d].h # h BY <1>4, <1>12, <2>2
    <3>2. pcall[d].h \in Handles => pool'[pcall[d].h] = pool[pcall[d].h] BY <1>5, <3>1
    <3>3. pcall[d].h \in Handles => pcall[d].h \notin free' BY <1>3, <2>1, ConstantsAre DEF PoolCallOK
    <3>4. pcall[d].pc # "scan" BY <1>4 DEF Creating
    <3>5. pcall[d].pc = "clear" => ~odp'[pcall[d].idx].live
      BY <1>13, <1>18, <2>1 DEF PoolCallOK
    <3> QED BY <3>1, <3>2, <3>3, <3>4, <3>5
  <2>3. CallsSee(c) BY <2>2 DEF CallsSee
  <2>4. \A j \in 1..Len(pool'[h].subs) : Live(h, j)' <=> j > i
    <3>1. ASSUME NEW j \in 1..Len(pool[h].subs) PROVE Live(h, j)' <=> j > i
      <4>1. CASE j = i BY <1>5, <4>1 DEF Live
      <4>2. CASE j # i
        <5>1. Live(h, j)' <=> Live(h, j) BY <1>5, <1>6, <4>2 DEF Live
        <5>2. Live(h, j) <=> j > i - 1 BY <1>7
        <5> QED BY <1>4, <4>2, <5>1, <5>2
      <4> QED BY <4>1, <4>2
    <3> QED BY <1>5, <3>1
  <2>5. ~odp'[x].live BY <1>13 DEF NoOdp
  <2>6. h # Undef /\ h \notin free' /\ i # 0 /\ x \in OdpIdx BY <1>3, <1>4, <1>7
  <2>7. PoolCallOK(c)' BY <1>10, <1>12, <2>4, <2>5, <2>6 DEF PoolCallOK
  <2> QED BY <2>3, <2>7, CallsKeep DEF PCallsInv
<1>23. boot.phase \notin {"done", "failed"} BY <1>2, <1>3 DEF PInv, BootInv
<1>24. PhaseSeen BY <1>3 DEF PhaseSeen
<1>25. PoolsInv'
  <2>1. \A g \in Handles : Quiet(g)' <=> Quiet(g) BY ZenonT(40), <1>2, <1>3, <1>10, <1>12 DEF Quiet
  <2>2. PoolsSee(h)
    <3>1. ASSUME NEW g \in Handles, g # h
          PROVE  pool'[g] = pool[g] /\ (g \in free' <=> g \in free) /\ (Quiet(g)' <=> Quiet(g))
      BY <1>3, <1>5, <2>1, <3>1
    <3>2. ASSUME NEW g \in Handles, g # h, NEW j \in DOMAIN pool[g].subs, Live(g, j)
          PROVE  odp'[pool[g].subs[j].idx] = odp[pool[g].subs[j].idx]
      BY <1>13, <1>21, <3>2
    <3> QED BY <1>24, <3>1, <3>2 DEF PoolsSee
  <2>3. Ascends(pool[h].subs) /\ Len(pool[h].subs) <= Cardinality(OdpIdx) BY <1>4 DEF PoolOK
  <2>4. \A j \in DOMAIN pool[h].subs : pool[h].subs[j].size \in Nat BY <1>1, <1>4, PTypes
  <2>5. \A j \in DOMAIN pool[h].subs : j < i => pool[h].subs[j].size = 0
    <3>1. ASSUME NEW j \in DOMAIN pool[h].subs, j < i PROVE pool[h].subs[j].size = 0
      <4>1. ~Live(h, j) BY <1>4, <1>6, <1>7, <3>1
      <4> QED BY <1>4, <4>1 DEF PoolOK
    <3> QED BY <3>1
  <2>6. Ascends(pool'[h].subs)
    <3>1. ASSUME NEW j \in DOMAIN pool[h].subs, NEW k \in DOMAIN pool[h].subs, j < k
          PROVE  pool'[h].subs[j].size <= pool'[h].subs[k].size
      <4>1. CASE j = i
        <5>1. k # i BY <1>4, <1>6, <3>1, <4>1
        <5> QED BY <1>5, <2>4, <4>1, <5>1
      <4>2. CASE k = i BY <1>5, <2>5, <3>1, <4>2
      <4>3. CASE j # i /\ k # i BY <1>5, <2>3, <3>1, <4>3 DEF Ascends
      <4> QED BY <4>1, <4>2, <4>3
    <3> QED BY <1>5, <3>1 DEF Ascends
  <2>7. ASSUME NEW j \in DOMAIN pool[h].subs
        PROVE  pool'[h].subs[j].size = IF Live(h, j)' THEN odp'[pool'[h].subs[j].idx].size ELSE 0
    <3>1. CASE j = i BY <1>5, <3>1 DEF Live
    <3>2. CASE j # i
      <4>1. pool'[h].subs[j] = pool[h].subs[j] /\ (Live(h, j)' <=> Live(h, j)) BY <1>5, <3>2 DEF Live
      <4>2. pool[h].subs[j].size = IF Live(h, j) THEN odp[pool[h].subs[j].idx].size ELSE 0
        BY <1>4 DEF PoolOK
      <4>3. ASSUME Live(h, j) PROVE odp'[pool[h].subs[j].idx] = odp[pool[h].subs[j].idx]
        <5>1. j \in Nat /\ pool[h].subs[j].idx \in OdpIdx BY <1>1, <1>4, <4>3, PTypes DEF Live
        <5>2. CASE pool[h].subs[j].idx = x
          <6>1. Owns(h, j, x) BY <5>2 DEF Owns
          <6> QED BY <1>3, <1>4, <1>17, <3>2, <5>1, <6>1 DEF PInv, OdpInv
        <5> QED BY <1>13, <5>1, <5>2
      <4> QED BY <4>1, <4>2, <4>3
    <3> QED BY <3>1, <3>2
  <2>8. ASSUME boot'.phase # "term" PROVE ~InUse(h)'
    <3>1. ~InUse(h) BY <1>3, <1>4, <2>8 DEF PoolOK
    <3>2. ASSUME NEW j \in DOMAIN pool[h].subs, pool'[h].subs[j].idx # NoIdx
          PROVE  ~(odp'[pool'[h].subs[j].idx].used > 0)
      <4>1. j # i /\ pool'[h].subs[j] = pool[h].subs[j] BY <1>5, <3>2
      <4>2. ~(odp[pool[h].subs[j].idx].used > 0) BY <3>1, <3>2, <4>1 DEF InUse
      <4>3. pool[h].subs[j].idx \in OdpIdx BY <1>1, <1>4, <3>2, <4>1, PTypes
      <4>4. CASE pool[h].subs[j].idx = x BY <1>13, <4>1, <4>4 DEF NoOdp
      <4>5. CASE pool[h].subs[j].idx # x BY <1>13, <4>1, <4>2, <4>3, <4>5
      <4> QED BY <4>4, <4>5
    <3> QED BY <1>5, <3>2 DEF InUse
  <2>9. PoolOK(h)'
    <3>1. ~Quiet(h)' BY <1>4, <2>1
    <3>2. pool'[h].name = "default" => h = Default BY <1>4, <1>5 DEF PoolOK
    <3>3. h \notin free' BY <1>3, <1>4
    <3>4. Len(pool'[h].subs) <= Cardinality(OdpIdx) BY <1>5, <2>3
    <3>5. \A j \in DOMAIN pool'[h].subs :
             pool'[h].subs[j].size = IF Live(h, j)' THEN odp'[pool'[h].subs[j].idx].size ELSE 0
      BY <1>5, <2>7
    <3> QED BY <2>6, <2>8, <3>1, <3>2, <3>3, <3>4, <3>5 DEF PoolOK
  <2> QED BY <2>2, <2>9, PoolsKeep DEF PoolsInv
<1>26. OdpInv'
  <2>1. ASSUME NEW y \in OdpIdx PROVE OdpOK(y)'
    <3>1. CASE y = x
      <4>1. ~Owned(x)' BY <1>20 DEF Owned
      <4> QED BY <1>13, <3>1, <4>1 DEF OdpOK, NoOdp
    <3>2. CASE y # x
      <4>1. Owned(y)' <=> Owned(y) BY <1>19, <3>2 DEF Owned
      <4>2. OdpOK(y) /\ odp'[y] = odp[y] BY <1>13, <3>2 DEF PInv, OdpInv
      <4> QED BY <1>24, <4>1, <4>2 DEF OdpOK, PhaseSeen
    <3> QED BY <3>1, <3>2
  <2>2. ASSUME NEW y \in OdpIdx, NEW f \in Handles, NEW g \in Handles, NEW j \in Nat, NEW k \in Nat,
               Owns(f, j, y)', Owns(g, k, y)'
        PROVE  f = g /\ j = k
    <3>1. y # x BY <1>20, <2>2
    <3>2. Owns(f, j, y) /\ Owns(g, k, y) BY <1>19, <2>2, <3>1
    <3> QED BY <3>2 DEF PInv, OdpInv
  <2> QED BY <2>1, <2>2 DEF OdpInv
<1>27. MapInv'
  <2>1. ASSUME NEW y \in OdpIdx, y # x PROVE MapOK(y)'
    <3>1. MapSeen(y) BY <1>1, <1>2, <1>3, <1>11, AtKeeps
    <3> QED BY <1>19, <2>1, <3>1, MapKeeps
  <2>2. MapOK(x)'
    <3>1. At("clear", x)' BY <1>10, <1>12 DEF At
    <3> QED BY <1>20, <3>1 DEF MapOK
  <2> QED BY <2>1, <2>2 DEF MapInv
<1>28. BootInv'
  <2>1. ASSUME NEW g \in Handles, g # h PROVE InUse(g)' <=> InUse(g)
    <3>1. pool'[g] = pool[g] BY <1>5, <2>1
    <3>2. \A j \in DOMAIN pool[g].subs : Live(g, j) => odp'[pool[g].subs[j].idx] = odp[pool[g].subs[j].idx]
      BY <1>13, <1>21, <2>1
    <3> QED BY <3>1, <3>2 DEF InUse, Live
  <2>2. BootSeen(c, r)
    BY <1>1, <1>2, <1>3, <1>4, <1>5, <1>10, <1>11, <2>1 DEF BootSeen, PTypeInv, Creating
  <2> QED BY <2>2, BootKeeps
<1> QED BY <1>14, <1>16, <1>22, <1>25, <1>26, <1>27, <1>28 DEF PInv

\* odp_pool_destroy()
LEMMA DestroyStep ==
  ASSUME PInv, NEW c \in PoolCores, Destroy(c)
  PROVE  PInv'
<1>1. PICK h : h = pcall[c].h OBVIOUS
<1>2. PICK i : i = pcall[c].i OBVIOUS
<1>3. PICK x : x = pool[h].subs[i].idx OBVIOUS
<1>4. /\ pcall[c].pc = "destroy" /\ i <= Len(pool[h].subs)
      /\ \/ /\ x = NoIdx \/ odp[x].used > 0
            /\ pcall' = [pcall EXCEPT ![c] = NoPoolCall]
            /\ UNCHANGED <<pool, odp>>
         \/ /\ x # NoIdx /\ odp[x].used = 0
            /\ odp' = [odp EXCEPT ![x] = NoOdp]
            /\ pool' = [pool EXCEPT ![h].subs[i] = [idx |-> NoIdx, size |-> 0]]
            /\ pcall' = [pcall EXCEPT ![c].pc = "clear", ![c].idx = x]
      /\ UNCHANGED <<free, odp2em, boot>>
  BY <1>1, <1>2, <1>3 DEF Destroy
<1>5. CASE /\ x = NoIdx \/ odp[x].used > 0
           /\ pcall' = [pcall EXCEPT ![c] = NoPoolCall]
           /\ UNCHANGED <<pool, odp>>
  BY <1>1, <1>2, <1>3, <1>4, <1>5, DestroyFails DEF Live
<1>6. CASE /\ x # NoIdx /\ odp[x].used = 0
           /\ odp' = [odp EXCEPT ![x] = NoOdp]
           /\ pool' = [pool EXCEPT ![h].subs[i] = [idx |-> NoIdx, size |-> 0]]
           /\ pcall' = [pcall EXCEPT ![c].pc = "clear", ![c].idx = x]
  <2>1. h \in Handles /\ i \in Nat /\ i # 0 BY <1>1, <1>2, <1>4, InCallIs DEF PoolCallOK
  <2>2. Len(pool[h].subs) \in Nat /\ DOMAIN pool[h].subs = 1..Len(pool[h].subs)
    BY <2>1, PTypes DEF PInv
  <2>3. i \in 1..Len(pool[h].subs) BY <1>4, <2>1, <2>2
  <2>4. x \in OdpIdx BY <1>3, <1>6, <2>1, <2>2, <2>3, PTypes DEF PInv
  <2>5. Destroyed(c, h, i, x) BY <1>1, <1>2, <1>3, <1>4, <1>6, <2>3, <2>4 DEF Destroyed
  <2> QED BY <2>5, DestroyedStep
<1> QED BY <1>4, <1>5, <1>6

\* A non-empty set of numbers has a smallest one, and Min() is it.
LEMMA LeastIs ==
  ASSUME NEW T \in SUBSET Nat, T # {}
  PROVE  Min(T) \in T /\ \A y \in T : Min(T) <= y
<1>1. IsWellFoundedOn(OpToRel(<, Nat), Nat) BY NatLessThanWellFounded
<1>2. PICK x \in T : \A y \in T : ~(<<y, x>> \in OpToRel(<, Nat)) BY <1>1, WFMin
<1>3. \A y \in T : ~(y < x) BY <1>2 DEF OpToRel
<1>4. \A y \in T : x <= y BY <1>3
<1> QED BY <1>4 DEF Min

\* odp_pool_create() makes the ODP pool x, the next subpool of pool h.
Created(c, h, x, k) ==
  /\ h = pcall[c].h /\ k = pcall[c].cfg[pcall[c].i] /\ pcall[c].pc = "sub"
  /\ x \in OdpIdx /\ ~odp[x].live
  /\ odp' = [odp EXCEPT ![x] = [NoOdp EXCEPT !.live = TRUE, !.size = k.size, !.num = k.num]]
  /\ pool' = [pool EXCEPT ![h].subs = Append(@, [idx |-> x, size |-> k.size])]
  /\ pcall' = [pcall EXCEPT ![c].pc = "map", ![c].idx = x]
  /\ UNCHANGED <<free, odp2em, boot>>

Filled(h, z) ==
  /\ pool' \in [Handles -> [name : Names, subs : Seq(Subpool)]]
  /\ \A g \in Handles : pool'[g].name = pool[g].name /\ (g # h => pool'[g] = pool[g])
  /\ Len(pool'[h].subs) = Len(pool[h].subs) + 1
  /\ DOMAIN pool'[h].subs = 1..Len(pool[h].subs) + 1
  /\ pool'[h].subs[Len(pool[h].subs) + 1] = z
  /\ \A j \in 1..Len(pool[h].subs) : pool'[h].subs[j] = pool[h].subs[j]

\* A subpool is added to a pool.
LEMMA FilledIs ==
  ASSUME PTypeInv, NEW h \in Handles, NEW z \in Subpool, pool' = [pool EXCEPT ![h].subs = Append(@, z)]
  PROVE  Filled(h, z)
<1>1. pool \in [Handles -> [name : Names, subs : Seq(Subpool)]] BY DEF PTypeInv
<1>2. PICK s \in Seq(Subpool) : s = pool[h].subs BY <1>1
<1>3. PICK t : t = Append(s, z) OBVIOUS
<1>4. /\ t \in Seq(Subpool) /\ DOMAIN t = 1..Len(s) + 1 /\ Len(t) = Len(s) + 1 /\ t[Len(s) + 1] = z
      /\ \A j \in 1..Len(s) : t[j] = s[j]
  BY <1>3
<1>5. PICK p : p = [pool[h] EXCEPT !.subs = t] OBVIOUS
<1>6. p.name = pool[h].name /\ p.subs = t /\ p \in [name : Names, subs : Seq(Subpool)]
  BY <1>1, <1>4, <1>5
<1>7. pool' = [pool EXCEPT ![h] = p] BY <1>1, <1>2, <1>3, <1>5
<1> QED BY ZenonT(40), <1>1, <1>2, <1>4, <1>6, <1>7 DEF Filled

\* The invariant after it: only the mapping is still to be stored.
LEMMA CreatedStep ==
  ASSUME PInv, NEW c \in PoolCores, NEW h, NEW x, NEW k, Created(c, h, x, k)
  PROVE  PInv'
<1>1. PTypeInv /\ OnePoolCall BY DEF PInv
<1>2. PICK q : q = pcall[c] OBVIOUS
<1>3. /\ h = q.h /\ k = q.cfg[q.i] /\ q.pc = "sub" /\ x \in OdpIdx /\ ~odp[x].live
      /\ odp' = [odp EXCEPT ![x] = [NoOdp EXCEPT !.live = TRUE, !.size = k.size, !.num = k.num]]
      /\ pool' = [pool EXCEPT ![h].subs = Append(@, [idx |-> x, size |-> k.size])]
      /\ pcall' = [pcall EXCEPT ![c].pc = "map", ![c].idx = x]
      /\ UNCHANGED <<free, odp2em, boot>>
  BY <1>2 DEF Created
<1>4. /\ h \in Handles /\ h # Undef /\ h \notin free /\ ~Quiet(h) /\ PoolCallOK(c) /\ q.i \in Nat
      /\ PoolOK(h) /\ \A d \in PoolCores : d # c => pcall[d].h # h
      /\ \A d \in PoolCores : pcall[d].pc \notin Deleting
  BY <1>2, <1>3, InCallIs DEF Creating
<1>5. /\ Ascends(q.cfg) /\ q.i \in 1..Len(q.cfg) /\ MadeAs(h, q.cfg) /\ Len(pool[h].subs) = q.i - 1
  BY <1>2, <1>3, <1>4 DEF PoolCallOK
<1>6. PICK n \in Nat : n = Len(pool[h].subs) /\ n + 1 = q.i /\ DOMAIN pool[h].subs = 1..n
  BY <1>1, <1>4, <1>5, PTypes
<1>7. q \in PoolCall /\ q.cfg \in Seq(Entry) /\ DOMAIN q.cfg = 1..Len(q.cfg) /\ Len(q.cfg) \in Nat
  BY <1>1, <1>2 DEF PTypeInv, PoolCall
<1>8. k.size \in Nat /\ k.num \in Nat
  <2>1. PICK s \in Seq(Entry) : s = q.cfg BY <1>7
  <2>2. \A j \in 1..Len(s) : s[j] \in Entry OBVIOUS
  <2>3. k \in Entry BY <1>3, <1>5, <2>1, <2>2
  <2> QED BY <2>3 DEF Entry
<1>9. PICK z : z = [idx |-> x, size |-> k.size] OBVIOUS
<1>10. z \in Subpool /\ z.idx = x /\ z.size = k.size BY <1>3, <1>8, <1>9 DEF Subpool
<1>11. /\ pool' \in [Handles -> [name : Names, subs : Seq(Subpool)]]
       /\ \A g \in Handles : pool'[g].name = pool[g].name /\ (g # h => pool'[g] = pool[g])
       /\ Len(pool'[h].subs) = n + 1 /\ DOMAIN pool'[h].subs = 1..n + 1
       /\ pool'[h].subs[n + 1] = z
       /\ \A j \in 1..n : pool'[h].subs[j] = pool[h].subs[j]
  <2>1. pool' = [pool EXCEPT ![h].subs = Append(@, z)] BY <1>3, <1>9
  <2>2. Filled(h, z) BY <1>1, <1>4, <1>10, <2>1, FilledIs
  <2> QED BY <1>6, <2>2 DEF Filled
<1>12. PICK r : r = [q EXCEPT !.pc = "map", !.idx = x] OBVIOUS
<1>13. r \in PoolCall /\ r.pc = "map" /\ r.h = h /\ r.i = n + 1 /\ r.idx = x /\ r.cfg = q.cfg
  BY <1>3, <1>6, <1>7, <1>12 DEF PoolCall
<1>14. CallTo(c, r)
  <2>1. pcall \in [PoolCores -> PoolCall] BY <1>1 DEF PTypeInv
  <2>2. pcall' = [pcall EXCEPT ![c] = r] BY <1>2, <1>3, <1>7, <1>12, <2>1 DEF PoolCall
  <2> QED BY <1>13, <2>2 DEF CallTo
<1>15. /\ pcall' \in [PoolCores -> PoolCall] /\ pcall'[c] = r
       /\ \A d \in PoolCores : d # c => pcall'[d] = pcall[d]
  BY <1>1, <1>14, CallToIs
<1>16. PICK o : o = [NoOdp EXCEPT !.live = TRUE, !.size = k.size, !.num = k.num] OBVIOUS
<1>17. o \in OdpPool /\ o.live /\ o.size = k.size /\ o.num = k.num /\ o.used = 0 /\ o.want = 0
  BY <1>8, <1>16 DEF NoOdp, OdpPool
<1>18. /\ odp' \in [OdpIdx -> OdpPool] /\ odp'[x] = o
       /\ \A y \in OdpIdx : y # x => odp'[y] = odp[y]
  BY <1>1, <1>3, <1>16, <1>17 DEF PTypeInv
<1>19. PTypeInv' BY <1>1, <1>3, <1>11, <1>15, <1>18 DEF PTypeInv
<1>20. Joins(c, r) BY <1>4, <1>13, <1>14 DEF Joins, Deleting
<1>21. OnePoolCall' BY <1>1, <1>20, OneCallStep
<1>22. \A g \in Handles, j \in Nat : ~Owns(g, j, x)
  BY <1>3 DEF PInv, OdpInv, OdpOK, Owned
<1>23. ASSUME NEW g \in Handles, NEW j \in Nat, NEW y \in OdpIdx, y # x
       PROVE  Owns(g, j, y)' <=> Owns(g, j, y)
  <2>1. CASE g # h BY <1>11, <2>1 DEF Owns
  <2>2. CASE g = h /\ j # n + 1
    <3>1. j \in 1..n + 1 <=> j \in 1..n BY <1>6, <2>2
    <3> QED BY <1>6, <1>11, <2>2, <3>1 DEF Owns
  <2>3. CASE g = h /\ j = n + 1
    <3>1. j \notin 1..n BY <2>3
    <3> QED BY <1>6, <1>10, <1>11, <1>23, <2>3, <3>1 DEF Owns
  <2> QED BY <2>1, <2>2, <2>3
<1>24. ASSUME NEW g \in Handles, NEW j \in Nat
       PROVE  Owns(g, j, x)' <=> g = h /\ j = n + 1
  <2>1. ~Owns(g, j, x) BY <1>22
  <2>2. CASE g # h BY <1>11, <2>1, <2>2 DEF Owns
  <2>3. CASE g = h /\ j # n + 1
    <3>1. j \in 1..n + 1 <=> j \in 1..n BY <1>6, <2>3
    <3> QED BY <1>6, <1>11, <2>1, <2>3, <3>1 DEF Owns
  <2>4. CASE g = h /\ j = n + 1
    <3>1. j \in 1..n + 1 BY <2>4
    <3> QED BY <1>10, <1>11, <2>4, <3>1 DEF Owns
  <2> QED BY <2>2, <2>3, <2>4
<1>25. ASSUME NEW g \in Handles, NEW j \in DOMAIN pool[g].subs, Live(g, j)
       PROVE  pool[g].subs[j].idx \in OdpIdx /\ pool[g].subs[j].idx # x
  <2>1. j \in Nat /\ pool[g].subs[j].idx \in OdpIdx BY <1>1, <1>25, PTypes DEF Live
  <2> QED BY <1>22, <2>1 DEF Owns
<1>26. \A j \in 1..n : Live(h, j)' <=> Live(h, j) BY <1>11 DEF Live
<1>27. Live(h, n + 1)' BY <1>3, <1>10, <1>11, ConstantsAre DEF Live
<1>28. PCallsInv'
  <2>1. \A d \in PoolCores : PoolCallOK(d) BY DEF PInv, PCallsInv
  <2>2. ASSUME NEW d \in PoolCores, d # c
        PROVE  /\ pcall'[d] = pcall[d]
               /\ pcall[d].h \in Handles => /\ pool'[pcall[d].h].subs = pool[pcall[d].h].subs
                                            /\ pcall[d].h \notin free'
               /\ pcall[d].pc = "scan" => Default \notin free'
               /\ pcall[d].pc = "clear" => ~odp'[pcall[d].idx].live
    <3>1. pcall'[d] = pcall[d] /\ pcall[d].h # h BY <1>4, <1>15, <2>2
    <3>2. pcall[d].h \in Handles => pool'[pcall[d].h] = pool[pcall[d].h] BY <1>11, <3>1
    <3>3. pcall[d].h \in Handles => pcall[d].h \notin free' BY <1>3, <2>1, ConstantsAre DEF PoolCallOK
    <3>4. pcall[d].pc = "scan" => Default \notin free' BY <1>3, <2>1 DEF PoolCallOK
    <3>5. pcall[d].pc # "clear" BY <1>4 DEF Deleting
    <3> QED BY <3>1, <3>2, <3>3, <3>4, <3>5
  <2>3. CallsSee(c) BY <2>2 DEF CallsSee
  <2>4. ASSUME NEW j \in 1..n + 1 PROVE Live(h, j)' /\ pool'[h].subs[j].size = q.cfg[j].size
    <3>1. CASE j = n + 1 BY <1>3, <1>6, <1>10, <1>11, <1>27, <3>1
    <3>2. CASE j # n + 1
      <4>1. j \in 1..n BY <3>2
      <4>2. Live(h, j) /\ pool[h].subs[j].size = q.cfg[j].size BY <1>5, <1>6, <4>1 DEF MadeAs
      <4> QED BY <1>11, <1>26, <4>1, <4>2
    <3> QED BY <3>1, <3>2
  <2>5. MadeAs(h, q.cfg)' BY <1>11, <2>4 DEF MadeAs
  <2>6. h # Undef /\ h \notin free' BY <1>3, <1>4
  <2>7. Ascends(r.cfg) /\ r.i \in 1..Len(r.cfg) /\ Len(pool'[h].subs) = r.i
    BY <1>5, <1>6, <1>11, <1>13
  <2>8. r.idx \in OdpIdx /\ pool'[h].subs[r.i].idx = r.idx BY <1>3, <1>10, <1>11, <1>13
  <2>9. MadeAs(h, r.cfg)' BY <1>13, <2>5 DEF MadeAs
  <2>10. PoolCallOK(c)' BY <1>13, <1>15, <2>6, <2>7, <2>8, <2>9 DEF PoolCallOK, MadeAs, Live
  <2> QED BY <2>3, <2>10, CallsKeep DEF PCallsInv
<1>29. boot.phase \notin {"done", "failed", "term"}
  <2>1. boot.phase # "run" => c = 0 BY <1>2, <1>3 DEF PInv, BootInv
  <2> QED BY <1>2, <1>3, <2>1 DEF PInv, BootInv, TermOK, Creating
<1>30. PhaseSeen BY <1>3, <1>29 DEF PhaseSeen
<1>31. PoolsInv'
  <2>1. \A g \in Handles : Quiet(g)' <=> Quiet(g) BY <1>2, <1>3, <1>13, <1>15 DEF Quiet
  <2>2. PoolsSee(h)
    <3>1. ASSUME NEW g \in Handles, g # h
          PROVE  pool'[g] = pool[g] /\ (g \in free' <=> g \in free) /\ (Quiet(g)' <=> Quiet(g))
      BY <1>3, <1>11, <2>1, <3>1
    <3>2. ASSUME NEW g \in Handles, g # h, NEW j \in DOMAIN pool[g].subs, Live(g, j)
          PROVE  odp'[pool[g].subs[j].idx] = odp[pool[g].subs[j].idx]
      BY <1>18, <1>25, <3>2
    <3> QED BY <1>30, <3>1, <3>2 DEF PoolsSee
  <2>3. \A j \in 1..n + 1 : pool'[h].subs[j].size = q.cfg[j].size
    <3>1. ASSUME NEW j \in 1..n PROVE pool'[h].subs[j].size = q.cfg[j].size
      BY <1>5, <1>6, <1>11 DEF MadeAs
    <3>2. pool'[h].subs[n + 1].size = q.cfg[n + 1].size BY <1>3, <1>6, <1>10, <1>11
    <3> QED BY <3>1, <3>2
  <2>4. Ascends(pool'[h].subs)
    <3>1. \A j \in 1..n + 1 : j \in DOMAIN q.cfg BY <1>5, <1>6, <1>7
    <3> QED BY <1>5, <1>11, <2>3, <3>1 DEF Ascends
  <2>5. ASSUME NEW j \in 1..n + 1
        PROVE  pool'[h].subs[j].size = IF Live(h, j)' THEN odp'[pool'[h].subs[j].idx].size ELSE 0
    <3>1. CASE j = n + 1 BY <1>10, <1>11, <1>17, <1>18, <1>27, <3>1
    <3>2. CASE j # n + 1
      <4>1. j \in 1..n BY <3>2
      <4>2. pool[h].subs[j].size = IF Live(h, j) THEN odp[pool[h].subs[j].idx].size ELSE 0
        BY <1>4, <1>6, <4>1 DEF PoolOK
      <4>3. ASSUME Live(h, j) PROVE odp'[pool[h].subs[j].idx] = odp[pool[h].subs[j].idx]
        BY <1>4, <1>6, <1>18, <1>25, <4>1, <4>3
      <4> QED BY <1>11, <1>26, <4>1, <4>2, <4>3
    <3> QED BY <3>1, <3>2
  <2>6. ~InUse(h)'
    <3>1. ~InUse(h) BY <1>4, <1>29 DEF PoolOK
    <3>2. ASSUME NEW j \in 1..n + 1, pool'[h].subs[j].idx # NoIdx
          PROVE  ~(odp'[pool'[h].subs[j].idx].used > 0)
      <4>1. CASE j = n + 1 BY <1>10, <1>11, <1>17, <1>18, <4>1
      <4>2. CASE j # n + 1
        <5>1. j \in 1..n /\ pool'[h].subs[j] = pool[h].subs[j] BY <1>11, <4>2
        <5>2. ~(odp[pool[h].subs[j].idx].used > 0) BY <1>6, <3>1, <3>2, <5>1 DEF InUse
        <5>3. Live(h, j) BY <3>2, <5>1 DEF Live
        <5> QED BY <1>4, <1>6, <1>18, <1>25, <5>1, <5>2, <5>3
      <4> QED BY <4>1, <4>2
    <3> QED BY <1>11, <3>2 DEF InUse
  <2>7. n + 1 <= Cardinality(OdpIdx)
    <3>1. PICK f : f = [j \in 1..n + 1 |-> pool'[h].subs[j].idx] OBVIOUS
    <3>2. \A j \in 1..n + 1 : Live(h, j)'
      <4>1. ASSUME NEW j \in 1..n PROVE Live(h, j)' BY <1>5, <1>6, <1>26 DEF MadeAs
      <4> QED BY <1>27, <4>1
    <3>3. ASSUME NEW j \in 1..n + 1 PROVE pool'[h].subs[j].idx \in OdpIdx /\ Owns(h, j, f[j])'
      <4>1. pool'[h].subs[j].idx \in OdpIdx
        <5>1. CASE j = n + 1 BY <1>3, <1>10, <1>11, <5>1
        <5>2. CASE j # n + 1
          <6>1. j \in 1..n BY <5>2
          <6> QED BY <1>4, <1>6, <1>11, <1>25, <1>26, <3>2, <6>1
        <5> QED BY <5>1, <5>2
      <4> QED BY <1>11, <3>1, <4>1 DEF Owns
    <3>4. ASSUME NEW i \in 1..n + 1, NEW j \in 1..n + 1, f[i] = f[j] PROVE i = j
      <4>1. i \in Nat /\ j \in Nat /\ f[j] \in OdpIdx BY <3>1, <3>3
      <4>2. Owns(h, i, f[j])' /\ Owns(h, j, f[j])' BY <3>3, <3>4
      <4>3. CASE f[j] = x BY <1>4, <1>24, <4>1, <4>2, <4>3
      <4>4. CASE f[j] # x
        <5>1. Owns(h, i, f[j]) /\ Owns(h, j, f[j]) BY <1>4, <1>23, <4>1, <4>2, <4>4
        <5> QED BY <1>4, <4>1, <5>1 DEF PInv, OdpInv
      <4> QED BY <4>3, <4>4
    <3>5. f \in Injection(1..n + 1, OdpIdx) BY <3>1, <3>3, <3>4 DEF Injection, IsInjective
    <3>6. Cardinality(1..n + 1) <= Cardinality(OdpIdx) BY <3>5, ConstantsAre, FS_Injection
    <3>7. Cardinality(1..n + 1) = n + 1 BY FS_Interval
    <3> QED BY <3>6, <3>7
  <2>8. PoolOK(h)'
    <3>1. ~Quiet(h)' BY <1>4, <2>1
    <3>2. pool'[h].name = "default" => h = Default BY <1>4, <1>11 DEF PoolOK
    <3>3. h \notin free' BY <1>3, <1>4
    <3>4. Len(pool'[h].subs) <= Cardinality(OdpIdx) BY <1>11, <2>7
    <3>5. \A j \in DOMAIN pool'[h].subs :
             pool'[h].subs[j].size = IF Live(h, j)' THEN odp'[pool'[h].subs[j].idx].size ELSE 0
      BY <1>11, <2>5
    <3> QED BY <2>4, <2>6, <3>1, <3>2, <3>3, <3>4, <3>5 DEF PoolOK
  <2> QED BY <2>2, <2>8, PoolsKeep DEF PoolsInv
<1>32. OdpInv'
  <2>1. ASSUME NEW y \in OdpIdx PROVE OdpOK(y)'
    <3>1. CASE y = x
      <4>1. Owned(x)' BY <1>4, <1>24 DEF Owned
      <4>2. 0 <= k.num /\ 0 <= k.size BY <1>8
      <4> QED BY <1>17, <1>18, <3>1, <4>1, <4>2 DEF OdpOK
    <3>2. CASE y # x
      <4>1. Owned(y)' <=> Owned(y) BY <1>23, <3>2 DEF Owned
      <4>2. OdpOK(y) /\ odp'[y] = odp[y] BY <1>18, <3>2 DEF PInv, OdpInv
      <4> QED BY <1>30, <4>1, <4>2 DEF OdpOK, PhaseSeen
    <3> QED BY <3>1, <3>2
  <2>2. ASSUME NEW y \in OdpIdx, NEW f \in Handles, NEW g \in Handles, NEW i \in Nat, NEW j \in Nat,
               Owns(f, i, y)', Owns(g, j, y)'
        PROVE  f = g /\ i = j
    <3>1. CASE y = x BY <1>24, <2>2, <3>1
    <3>2. CASE y # x
      <4>1. Owns(f, i, y) /\ Owns(g, j, y) BY <1>23, <2>2, <3>2
      <4> QED BY <4>1 DEF PInv, OdpInv
    <3> QED BY <3>1, <3>2
  <2> QED BY <2>1, <2>2 DEF OdpInv
<1>33. MapInv'
  <2>1. ASSUME NEW y \in OdpIdx, y # x PROVE MapOK(y)'
    <3>1. MapSeen(y) BY <1>1, <1>2, <1>3, <1>14, AtKeeps
    <3> QED BY <1>23, <2>1, <3>1, MapKeeps
  <2>2. MapOK(x)'
    <3>1. At("map", x)' BY <1>13, <1>15 DEF At
    <3>2. Owned(x)' BY <1>4, <1>24 DEF Owned
    <3> QED BY <3>1, <3>2 DEF MapOK
  <2> QED BY <2>1, <2>2 DEF MapInv
<1>34. BootInv'
  <2>1. ASSUME NEW g \in Handles, g # h PROVE InUse(g)' <=> InUse(g)
    <3>1. pool'[g] = pool[g] BY <1>11, <2>1
    <3>2. \A j \in DOMAIN pool[g].subs : Live(g, j) => odp'[pool[g].subs[j].idx] = odp[pool[g].subs[j].idx]
      BY <1>18, <1>25
    <3> QED BY <3>1, <3>2 DEF InUse, Live
  <2>2. BootSeen(c, r)
    BY <1>1, <1>2, <1>3, <1>4, <1>11, <1>13, <1>14, <1>29, <2>1 DEF BootSeen, PTypeInv, Creating
  <2> QED BY <2>2, BootKeeps
<1> QED BY <1>19, <1>21, <1>28, <1>31, <1>32, <1>33, <1>34 DEF PInv

\* odp_pool_create() for one subpool.
LEMMA CreateSubStep ==
  ASSUME PInv, NEW c \in PoolCores, CreateSub(c)
  PROVE  PInv'
<1>1. PICK k : k = pcall[c].cfg[pcall[c].i] OBVIOUS
<1>2. PICK x : x = Min(FreeIdx) OBVIOUS
<1>3. FreeIdx \in SUBSET Nat /\ FreeIdx # {} BY ConstantsAre DEF FreeIdx, CreateSub
<1>4. x \in OdpIdx /\ ~odp[x].live
  <2>1. x \in FreeIdx BY <1>2, <1>3, LeastIs
  <2> QED BY <2>1 DEF FreeIdx
<1>5. Created(c, pcall[c].h, x, k) BY <1>1, <1>2, <1>4 DEF Created, CreateSub
<1> QED BY <1>5, CreatedStep

-----------------------------------------------------------------------------
(* Events *)

LEMMA MostIs ==
  ASSUME NEW a \in Nat, NEW b \in Nat
  PROVE  Max({a, b}) = IF a >= b THEN a ELSE b
BY DEF Max

\* Only the ODP pool x changes, in the events in use.
Counts(x, u, w) ==
  /\ x \in OdpIdx /\ odp[x].live /\ u \in Nat /\ w \in Nat
  /\ odp' = [odp EXCEPT ![x].used = u, ![x].want = w]
  /\ u <= odp[x].num /\ w <= odp[x].size /\ (u = 0 => w = 0)
  /\ boot.phase = "run"
  /\ UNCHANGED <<free, pool, odp2em, pcall, boot>>

\* The events in use of one ODP pool change, and nothing else.
LEMMA CountsKeep ==
  ASSUME PInv, NEW x, NEW u, NEW w, Counts(x, u, w),
         u > odp[x].used => \A h \in Handles, i \in Nat : Owns(h, i, x) => Quiet(h)
  PROVE  PInv'
<1>1. PTypeInv /\ OnePoolCall BY DEF PInv
<1>2. /\ x \in OdpIdx /\ odp[x].live /\ u \in Nat /\ w \in Nat
      /\ odp' = [odp EXCEPT ![x].used = u, ![x].want = w]
      /\ u <= odp[x].num /\ w <= odp[x].size /\ (u = 0 => w = 0)
      /\ boot.phase = "run"
      /\ UNCHANGED <<free, pool, odp2em, pcall, boot>>
  BY DEF Counts
<1>3. PICK o : o = [odp[x] EXCEPT !.used = u, !.want = w] OBVIOUS
<1>4. odp[x] \in OdpPool BY <1>1, <1>2 DEF PTypeInv
<1>5. /\ o \in OdpPool /\ o.live = odp[x].live /\ o.size = odp[x].size /\ o.num = odp[x].num
      /\ o.used = u /\ o.want = w
  BY <1>2, <1>3, <1>4 DEF OdpPool
<1>6. /\ odp' \in [OdpIdx -> OdpPool] /\ odp'[x] = o
      /\ \A y \in OdpIdx : y # x => odp'[y] = odp[y]
  BY <1>1, <1>2, <1>3, <1>5 DEF PTypeInv
<1>7. PTypeInv' BY <1>1, <1>2, <1>6 DEF PTypeInv
<1>8. OnePoolCall' BY <1>1, <1>2 DEF OnePoolCall, Busy
<1>9. \A d \in PoolCores : pcall[d].pc = "clear" => pcall[d].idx \in OdpIdx /\ pcall[d].idx # x
  <2>1. \A d \in PoolCores : PoolCallOK(d) BY DEF PInv, PCallsInv
  <2> QED BY <1>2, <2>1 DEF PoolCallOK
<1>10. PCallsInv'
  <2>1. ASSUME NEW d \in PoolCores PROVE PoolCallOK(d)'
    <3>1. PoolCallOK(d) BY DEF PInv, PCallsInv
    <3>2. pcall[d].pc = "clear" => odp'[pcall[d].idx] = odp[pcall[d].idx] BY <1>6, <1>9
    <3> QED BY <1>2, <3>1, <3>2 DEF PoolCallOK, MadeAs, Live
  <2> QED BY <2>1 DEF PCallsInv
<1>11. PhaseSeen BY <1>2 DEF PhaseSeen
<1>12. PoolsInv'
  <2>1. \A g \in Handles : Quiet(g)' <=> Quiet(g) BY <1>2 DEF Quiet
  <2>2. ASSUME NEW g \in Handles, NEW j \in DOMAIN pool[g].subs, Live(g, j)
        PROVE  /\ odp'[pool[g].subs[j].idx].size = odp[pool[g].subs[j].idx].size
               /\ ~Quiet(g) /\ odp'[pool[g].subs[j].idx].used > 0 => odp[pool[g].subs[j].idx].used > 0
    <3>1. pool[g].subs[j].idx \in OdpIdx /\ j \in Nat BY <1>1, <2>2, PTypes DEF Live
    <3>2. CASE pool[g].subs[j].idx # x BY <1>6, <3>1, <3>2
    <3>3. CASE pool[g].subs[j].idx = x
      <4>1. Owns(g, j, x) BY <3>3 DEF Owns
      <4>2. ~Quiet(g) => u <= odp[x].used BY <1>1, <1>2, <3>1, <4>1, PTypes
      <4>3. odp[x].used \in Nat BY <1>1, <1>2, PTypes
      <4> QED BY <1>2, <1>5, <1>6, <3>3, <4>2, <4>3
    <3> QED BY <3>2, <3>3
  <2>3. PoolsSee(Undef) BY <1>2, <1>11, <2>1, <2>2 DEF PoolsSee
  <2> QED BY <2>3, PoolsKeep, ConstantsAre DEF PoolsInv
<1>13. OwnsSame BY <1>2, SubsSame
<1>14. OdpInv'
  <2>1. ASSUME NEW y \in OdpIdx PROVE OdpOK(y)'
    <3>1. Owned(y)' <=> Owned(y) BY <1>13 DEF Owned, OwnsSame
    <3>2. OdpOK(y) BY DEF PInv, OdpInv
    <3>3. CASE y = x BY <1>2, <1>5, <1>6, <3>1, <3>2, <3>3 DEF OdpOK
    <3>4. CASE y # x BY <1>2, <1>6, <3>1, <3>2, <3>4 DEF OdpOK
    <3> QED BY <3>3, <3>4
  <2>2. ASSUME NEW y \in OdpIdx, NEW g \in Handles, NEW h \in Handles, NEW i \in Nat, NEW j \in Nat,
               Owns(g, i, y)', Owns(h, j, y)'
        PROVE  g = h /\ i = j
    <3>1. Owns(g, i, y) /\ Owns(h, j, y) BY <1>13, <2>2 DEF OwnsSame
    <3> QED BY <3>1 DEF PInv, OdpInv
  <2> QED BY <2>1, <2>2 DEF OdpInv
<1>15. MapInv'
  <2>1. \A y \in OdpIdx : MapSeen(y) BY <1>2 DEF MapSeen, At
  <2> QED BY <1>13, <2>1, MapKeeps DEF MapInv, OwnsSame
<1>16. BootInv'
  <2>1. BootInv BY DEF PInv
  <2>2. Quiet(Default)' <=> Quiet(Default) BY <1>2 DEF Quiet
  <2> QED BY <1>2, <2>1, <2>2 DEF BootInv, InitOK, RunOK, TermOK
<1> QED BY <1>7, <1>8, <1>10, <1>12, <1>14, <1>15, <1>16 DEF PInv

\* em_free()
LEMMA FreeStep ==
  ASSUME PInv, NEW x \in OdpIdx, AppFree(x)
  PROVE  PInv'
<1>1. PTypeInv BY DEF PInv
<1>2. boot.phase = "run" /\ odp[x].used > 0 /\ UNCHANGED <<free, pool, odp2em, pcall, boot>>
  BY DEF AppFree, EventFree
<1>3. OdpOK(x) BY DEF PInv, OdpInv
<1>4. odp[x] \in OdpPool /\ odp \in [OdpIdx -> OdpPool] BY <1>1 DEF PTypeInv
<1>5. odp[x].used \in Nat /\ odp[x].want \in Nat /\ odp[x].num \in Nat /\ odp[x].size \in Nat
  BY <1>1, PTypes
<1>6. PICK u \in Nat : u = odp[x].used - 1 BY <1>2, <1>5
<1>7. PICK w \in Nat : w = IF odp[x].used = 1 THEN 0 ELSE odp[x].want BY <1>5
<1>8. odp' = [odp EXCEPT ![x].used = u, ![x].want = w] BY <1>4, <1>6, <1>7 DEF AppFree, EventFree
<1>9. odp[x].live
  <2>1. ~odp[x].live => odp[x].used = 0 BY <1>3 DEF OdpOK, NoOdp
  <2> QED BY <1>2, <2>1
<1>10. u <= odp[x].num /\ w <= odp[x].size /\ (u = 0 => w = 0)
  BY <1>3, <1>5, <1>6, <1>7 DEF OdpOK
<1>11. Counts(x, u, w) BY <1>2, <1>8, <1>9, <1>10 DEF Counts
<1> QED BY <1>5, <1>6, <1>11, CountsKeep

\* em_alloc(): subpools are in ascending order, so any one after the first that fits does.
LEMMA AllocStep ==
  ASSUME PInv, NEW h \in Handles, NEW size \in Sizes, AppAlloc(h, size)
  PROVE  PInv'
<1>1. PTypeInv BY DEF PInv
<1>2. PICK from : from = Min(FindSubpool(h, size)) OBVIOUS
<1>3. PICK i : i = Min(AllocFrom(h, size)) OBVIOUS
<1>4. PICK x : x = pool[h].subs[i].idx OBVIOUS
<1>5. /\ boot.phase = "run" /\ Quiet(h) /\ FindSubpool(h, size) # {} /\ AllocFrom(h, size) # {}
      /\ odp' = [odp EXCEPT ![x].used = @ + 1, ![x].want = Max({@, size})]
      /\ UNCHANGED <<free, pool, odp2em, pcall, boot>>
  BY <1>3, <1>4 DEF AppAlloc, EventAlloc, Quiet
<1>6. Len(pool[h].subs) \in Nat /\ DOMAIN pool[h].subs = 1..Len(pool[h].subs) BY <1>1, PTypes
<1>7. from \in 1..Len(pool[h].subs) /\ size <= pool[h].subs[from].size
  <2>1. FindSubpool(h, size) \in SUBSET Nat BY <1>6 DEF FindSubpool
  <2>2. from \in FindSubpool(h, size) BY <1>2, <1>5, <2>1, LeastIs
  <2> QED BY <1>6, <2>2 DEF FindSubpool
<1>8. i \in from..Len(pool[h].subs) /\ x # NoIdx /\ odp[x].used < odp[x].num
  <2>1. \A y \in AllocFrom(h, size) : /\ y \in from..Len(pool[h].subs)
                                      /\ pool[h].subs[y].idx # NoIdx
                                      /\ odp[pool[h].subs[y].idx].used < odp[pool[h].subs[y].idx].num
    BY <1>2 DEF AllocFrom
  <2>2. AllocFrom(h, size) \in SUBSET Nat BY <1>6, <1>7, <2>1
  <2>3. i \in AllocFrom(h, size) BY <1>3, <1>5, <2>2, LeastIs
  <2> QED BY <1>4, <2>1, <2>3
<1>9. i \in DOMAIN pool[h].subs /\ i \in Nat BY <1>6, <1>7, <1>8
<1>10. x \in OdpIdx BY <1>1, <1>4, <1>8, <1>9, PTypes
<1>11. odp[x] \in OdpPool /\ odp \in [OdpIdx -> OdpPool] BY <1>1, <1>10 DEF PTypeInv
<1>12. odp[x].used \in Nat /\ odp[x].want \in Nat /\ odp[x].num \in Nat /\ odp[x].size \in Nat
  BY <1>1, <1>10, PTypes
<1>13. size \in Nat
  <2>1. PICK cfg \in Cfgs : size \in {cfg[j].size : j \in DOMAIN cfg} BY DEF Sizes
  <2>2. cfg \in Seq(Entry) BY <2>1, PoolAssumption DEF Entry
  <2>3. PICK s \in Seq(Entry) : s = cfg BY <2>2
  <2>4. \A j \in DOMAIN s : s[j].size \in Nat
    <3>1. \A j \in DOMAIN s : s[j] \in Entry OBVIOUS
    <3> QED BY <3>1 DEF Entry
  <2> QED BY <2>1, <2>3, <2>4
<1>14. PoolOK(h) /\ OdpOK(x) BY <1>10 DEF PInv, PoolsInv, OdpInv
<1>15. pool[h].subs[i].size = odp[x].size
  BY <1>4, <1>8, <1>9, <1>14 DEF PoolOK, Live
<1>16. size <= odp[x].size
  <2>1. from \in DOMAIN pool[h].subs BY <1>6, <1>7
  <2>2. pool[h].subs[from].size \in Nat BY <1>1, <2>1, PTypes
  <2>3. Ascends(pool[h].subs) BY <1>14 DEF PoolOK
  <2>4. from = i \/ from < i BY <1>6, <1>7, <1>8
  <2>5. from < i => pool[h].subs[from].size <= pool[h].subs[i].size
    BY <1>9, <2>1, <2>3 DEF Ascends
  <2> QED BY <1>7, <1>12, <1>13, <1>15, <2>2, <2>4, <2>5
<1>17. PICK u \in Nat : u = odp[x].used + 1 BY <1>12
<1>18. PICK w : w = Max({odp[x].want, size}) OBVIOUS
<1>19. w \in Nat /\ w <= odp[x].size
  <2>1. w = IF odp[x].want >= size THEN odp[x].want ELSE size BY <1>12, <1>13, <1>18, MostIs
  <2>2. odp[x].want <= odp[x].size BY <1>14 DEF OdpOK
  <2> QED BY <1>12, <1>13, <1>16, <2>1, <2>2
<1>20. odp' = [odp EXCEPT ![x].used = u, ![x].want = w] BY <1>5, <1>10, <1>11, <1>17, <1>18
<1>21. Owns(h, i, x) BY <1>4, <1>9 DEF Owns
<1>22. odp[x].live BY <1>9, <1>14, <1>21 DEF OdpOK, Owned
<1>23. u <= odp[x].num /\ u # 0 BY <1>8, <1>12, <1>17
<1>24. Counts(x, u, w) BY <1>5, <1>10, <1>19, <1>20, <1>22, <1>23 DEF Counts
<1>25. \A g \in Handles, j \in Nat : Owns(g, j, x) => Quiet(g)
  BY <1>5, <1>9, <1>10, <1>21 DEF PInv, OdpInv
<1> QED BY <1>24, <1>25, CountsKeep

-----------------------------------------------------------------------------
(* Reserving an element *)

\* A sorted configuration has the entries of the configuration, in ascending order.
LEMMA SortedIs ==
  ASSUME NEW cfg \in Cfgs, NEW s \in SortCfg(cfg)
  PROVE  s \in Seq(Entry) /\ Ascends(s) /\ Len(s) \in Nat /\ Len(s) >= 1
<1>1. cfg \in Seq(Entry) /\ cfg # <<>> BY PoolAssumption DEF Entry
<1>2. PICK t \in Seq(Entry) : t = cfg BY <1>1
<1>3. Len(t) \in Nat /\ DOMAIN t = 1..Len(t) /\ \A j \in 1..Len(t) : t[j] \in Entry OBVIOUS
<1>4. Len(t) >= 1 BY <1>1, <1>2, <1>3, EmptySeq
<1>5. PICK p \in Bijection(DOMAIN t, DOMAIN t) : s = [i \in DOMAIN t |-> t[p[i]]]
  BY <1>2 DEF SortCfg
<1>6. p \in [1..Len(t) -> 1..Len(t)] BY <1>3, <1>5 DEF Bijection, Injection
<1>7. s \in [1..Len(t) -> Entry] BY <1>3, <1>5, <1>6
<1>8. s \in Seq(Entry) /\ Len(s) = Len(t)
  <2>1. s \in Seq(Entry) BY <1>3, <1>7, SeqDef
  <2>2. DOMAIN s = 1..Len(t) BY <1>7
  <2> QED BY <1>3, <2>1, <2>2, LenProperties
<1>9. \A i, j \in DOMAIN s : i < j => s[i].size <= s[j].size BY DEF SortCfg
<1> QED BY <1>3, <1>4, <1>8, <1>9 DEF Ascends

\* Core c reserves element h for a pool with the sorted configuration s.
Reserves(c, h, s, name) ==
  /\ pcall[c].pc \in {"none", "scan"} /\ h \in Handles /\ pool[h] = NoPool /\ Quiet(h)
  /\ name \in Names /\ (name = "default" => h = Default)
  /\ \A d \in PoolCores : d # c => pcall[d].pc \notin Deleting
  /\ free' = free \ {h}
  /\ pool' = [pool EXCEPT ![h] = [name |-> name, subs |-> <<>>]]
  /\ pcall' = [pcall EXCEPT ![c] = [NoPoolCall EXCEPT !.pc = "sub", !.h = h, !.i = 1,
                                                     !.cfg = s, !.name = name]]
  /\ UNCHANGED <<odp, odp2em>>
  /\ boot' \in Boot /\ boot.phase \in {"init", "run"} /\ boot'.phase = boot.phase

\* The call and the table after it.
Reserved(c, h, name) ==
  /\ \A d \in PoolCores : d # c => pcall'[d] = pcall[d]
  /\ pcall'[c].pc = "sub" /\ pcall'[c].h = h
  /\ pool'[h].name = name
  /\ \A g \in Handles : g # h => pool'[g] = pool[g]

\* The invariant after it: a pool that is there and has no subpool yet.
LEMMA ReserveKeeps ==
  ASSUME PInv, NEW c \in PoolCores, NEW h, NEW cfg \in Cfgs, NEW s \in SortCfg(cfg), NEW name,
         Reserves(c, h, s, name)
  PROVE  /\ PTypeInv' /\ OnePoolCall' /\ PCallsInv' /\ PoolsInv' /\ OdpInv' /\ MapInv'
         /\ Reserved(c, h, name)
<1>1. PTypeInv /\ OnePoolCall BY DEF PInv
<1>2. /\ pcall[c].pc \in {"none", "scan"} /\ h \in Handles /\ pool[h] = NoPool /\ Quiet(h)
      /\ name \in Names /\ (name = "default" => h = Default)
      /\ \A d \in PoolCores : d # c => pcall[d].pc \notin Deleting
      /\ free' = free \ {h}
      /\ pool' = [pool EXCEPT ![h] = [name |-> name, subs |-> <<>>]]
      /\ UNCHANGED <<odp, odp2em>>
      /\ boot' \in Boot /\ boot.phase \in {"init", "run"} /\ boot'.phase = boot.phase
  BY DEF Reserves
<1>3. s \in Seq(Entry) /\ Ascends(s) /\ Len(s) \in Nat /\ Len(s) >= 1 BY SortedIs
<1>4. PICK r : r = [NoPoolCall EXCEPT !.pc = "sub", !.h = h, !.i = 1, !.cfg = s, !.name = name] OBVIOUS
<1>5. r \in PoolCall /\ r.pc = "sub" /\ r.h = h /\ r.i = 1 /\ r.cfg = s
  BY <1>2, <1>3, <1>4 DEF NoPoolCall, PoolCall
<1>6. h # Undef BY <1>2, ConstantsAre
<1>7. CallTo(c, r)
  <2>1. pcall' = [pcall EXCEPT ![c] = r] BY <1>4 DEF Reserves
  <2> QED BY <1>5, <2>1 DEF CallTo
<1>8. /\ pcall' \in [PoolCores -> PoolCall] /\ pcall'[c] = r
      /\ \A d \in PoolCores : d # c => pcall'[d] = pcall[d]
  BY <1>1, <1>7, CallToIs
<1>9. PICK e : e = [name |-> name, subs |-> <<>>] OBVIOUS
<1>10. /\ pool' \in [Handles -> [name : Names, subs : Seq(Subpool)]]
       /\ pool'[h].name = name /\ pool'[h].subs = <<>> /\ \A g \in Handles : g # h => pool'[g] = pool[g]
  <2>1. <<>> \in Seq(Subpool) OBVIOUS
  <2>2. e \in [name : Names, subs : Seq(Subpool)] /\ e.name = name /\ e.subs = <<>>
    BY <1>2, <1>9, <2>1
  <2> QED BY <1>1, <1>2, <1>9, <2>2 DEF PTypeInv
<1>11. pool[h].subs = <<>> BY <1>2 DEF NoPool
<1>12. PTypeInv' BY <1>1, <1>2, <1>8, <1>10 DEF PTypeInv
<1>13. pcall[c].h = Undef
  <2>1. PoolCallOK(c) BY DEF PInv, PCallsInv
  <2> QED BY <1>2, <2>1 DEF PoolCallOK
<1>14. Joins(c, r) BY <1>2, <1>5, <1>7 DEF Joins, Deleting, Quiet
<1>15. OnePoolCall' BY <1>1, <1>14, OneCallStep
<1>16. PCallsInv'
  <2>1. \A d \in PoolCores : PoolCallOK(d) BY DEF PInv, PCallsInv
  <2>2. ASSUME NEW d \in PoolCores, d # c
        PROVE  /\ pcall'[d] = pcall[d]
               /\ pcall[d].h \in Handles => /\ pool'[pcall[d].h].subs = pool[pcall[d].h].subs
                                            /\ pcall[d].h \notin free'
               /\ pcall[d].pc = "scan" => Default \notin free'
               /\ pcall[d].pc = "clear" => ~odp'[pcall[d].idx].live
    <3>1. pcall'[d] = pcall[d] /\ pcall[d].h # h BY <1>2, <1>8, <2>2 DEF Quiet
    <3>2. pcall[d].h \in Handles => pool'[pcall[d].h] = pool[pcall[d].h] BY <1>10, <3>1
    <3>3. pcall[d].h \in Handles => pcall[d].h \notin free' BY <1>2, <2>1, ConstantsAre DEF PoolCallOK
    <3>4. pcall[d].pc = "scan" => Default \notin free' BY <1>2, <2>1 DEF PoolCallOK
    <3>5. pcall[d].pc # "clear" BY <1>2, <2>2 DEF Deleting
    <3> QED BY <3>1, <3>2, <3>3, <3>4, <3>5
  <2>3. CallsSee(c) BY <2>2 DEF CallsSee
  <2>4. MadeAs(h, s)' BY <1>10 DEF MadeAs
  <2>5. r.i \in 1..Len(r.cfg) /\ Len(pool'[h].subs) = r.i - 1 /\ Ascends(r.cfg)
    BY <1>3, <1>5, <1>10
  <2>6. h \notin free' BY <1>2
  <2>7. PoolCallOK(c)' BY <1>5, <1>6, <1>8, <2>4, <2>5, <2>6 DEF PoolCallOK, MadeAs, Live
  <2> QED BY <2>3, <2>7, CallsKeep DEF PCallsInv
<1>17. PhaseSeen BY <1>2 DEF PhaseSeen
<1>18. PoolsInv'
  <2>1. \A g \in Handles : g # h => (Quiet(g)' <=> Quiet(g))
    BY <1>5, <1>8, <1>13, ConstantsAre DEF Quiet
  <2>2. PoolsSee(h) BY <1>2, <1>10, <1>17, <2>1 DEF PoolsSee
  <2>3. PoolOK(h)'
    <3>1. DOMAIN pool'[h].subs = {} /\ Len(pool'[h].subs) = 0 BY <1>10
    <3>2. 0 <= Cardinality(OdpIdx) BY ConstantsAre, FS_CardinalityType
    <3>3. ~InUse(h)' BY <3>1 DEF InUse
    <3>4. h \notin free' BY <1>2
    <3> QED BY <1>2, <1>10, <3>1, <3>2, <3>3, <3>4 DEF PoolOK, Ascends
  <2> QED BY <2>2, <2>3, PoolsKeep DEF PoolsInv
<1>19. OwnsSame
  <2>1. \A g \in Handles : pool'[g].subs = pool[g].subs BY <1>10, <1>11
  <2> QED BY <2>1, SubsSame
<1>20. OdpInv' BY <1>2, <1>17, <1>19, OdpKeeps
<1>21. MapInv'
  <2>1. pcall[c].pc \notin {"map", "clear"} BY <1>2
  <2>2. \A x \in OdpIdx : MapSeen(x) BY <1>1, <1>2, <1>7, <2>1, AtKeeps
  <2> QED BY <1>19, <2>2, MapKeeps DEF MapInv, OwnsSame
<1>22. Reserved(c, h, name) BY <1>5, <1>8, <1>10 DEF Reserved
<1> QED BY <1>12, <1>15, <1>16, <1>18, <1>20, <1>21, <1>22

\* What the object pool says of an element.
LEMMA FreeIs ==
  ASSUME PInv, NEW h \in free
  PROVE  h \in Handles /\ pool[h] = NoPool /\ Quiet(h)
<1>1. h \in Handles BY DEF PInv, PTypeInv
<1>2. PoolOK(h) BY <1>1 DEF PInv, PoolsInv
<1>3. ASSUME NEW d \in PoolCores, pcall[d].h = h PROVE FALSE
  <2>1. PoolCallOK(d) BY DEF PInv, PCallsInv
  <2> QED BY <1>1, <1>3, <2>1, ConstantsAre DEF PoolCallOK
<1> QED BY <1>1, <1>2, <1>3 DEF PoolOK, Quiet

-----------------------------------------------------------------------------
(* Create and delete of the application *)

\* While the application runs, only what becomes of the default pool matters.
LEMMA RunKeeps ==
  ASSUME PInv, boot.phase = "run", boot' = boot, Default \notin free', pool'[Default] = pool[Default],
         NEW c \in PoolCores, pcall'[c].h # Default, \A d \in PoolCores : d # c => pcall'[d] = pcall[d]
  PROVE  BootInv'
<1>1. RunOK BY DEF PInv, BootInv
<1>2. RunOK' BY <1>1 DEF RunOK, Quiet
<1> QED BY <1>2 DEF BootInv, InitOK, TermOK

\* In pool_init() core 0 is the only one that makes calls.
LEMMA InitKeeps ==
  ASSUME PInv, boot.phase = "init", boot'.phase = "init",
         \A d \in PoolCores : d # 0 => pcall'[d] = pcall[d], InitOK'
  PROVE  BootInv'
BY DEF PInv, BootInv, RunOK, TermOK

\* Pools are created in pool_init() and while the application runs.
LEMMA CreatesAppear ==
  ASSUME PInv, NEW c \in PoolCores, pcall[c].pc \in Creating
  PROVE  boot.phase \in {"init", "run"} /\ (boot.phase = "init" => c = 0)
<1>1. boot.phase \in {"init", "run", "term", "done", "failed"} BY PTypes DEF PInv
<1>2. BootInv BY DEF PInv
<1>3. boot.phase # "run" => c = 0 BY <1>2 DEF BootInv, Creating
<1>4. boot.phase \notin {"done", "failed"} BY <1>2, <1>3 DEF BootInv, Creating
<1>5. boot.phase # "term" BY <1>2, <1>3 DEF BootInv, TermOK
<1> QED BY <1>1, <1>3, <1>4, <1>5

\* Before the call of core 0 in pool_init(), and in a call without a handle,
\* the pools that are not the default pool.
LEMMA ExtraGrows ==
  ASSUME PInv, NEW h \in free, h # Default, free' = free \ {h}
  PROVE  /\ Cardinality(Extra) \in Nat /\ Cardinality(Extra') = Cardinality(Extra) + 1
<1>1. h \in Handles /\ free \subseteq Handles BY FreeIs DEF PInv, PTypeInv
<1>2. Extra' = Extra \cup {h} /\ h \notin Extra BY <1>1 DEF Extra
<1>3. IsFiniteSet(Extra) BY ConstantsAre, FS_Subset DEF Extra
<1>4. Cardinality(Extra \cup {h}) = Cardinality(Extra) + 1 BY <1>2, <1>3, FS_AddElement
<1> QED BY <1>2, <1>3, <1>4, FS_CardinalityType

LEMMA OrderedCounts ==
  ASSUME PInv
  PROVE  IsFiniteSet(Ordered) /\ Cardinality(Ordered) \in Nat
<1>1. boot.next \in Nat BY PTypes DEF PInv
<1>2. IsFiniteSet(1..boot.next - 1) BY <1>1, FS_Interval
<1>3. IsFiniteSet(Ordered) BY <1>2, FS_Subset DEF Ordered
<1> QED BY <1>3, FS_CardinalityType

\* objpool_rem() finds element h in the list it looks at.
LEMMA ScanHit ==
  ASSUME PInv, NEW c \in PoolCores, pcall[c].pc = "scan", NEW h \in free,
         Reserve(c, h, pcall[c].cfg, pcall[c].name), UNCHANGED <<odp, odp2em, boot>>
  PROVE  PInv'
<1>1. PTypeInv /\ OnePoolCall /\ boot \in Boot BY DEF PInv, PTypeInv
<1>2. h \in Handles /\ pool[h] = NoPool /\ Quiet(h) BY FreeIs
<1>3. PoolCallOK(c) BY DEF PInv, PCallsInv
<1>4. pcall[c].cfg \in Cfgs /\ pcall[c].name \in {"startup", "app"} /\ Default \notin free
  BY <1>3 DEF PoolCallOK
<1>5. boot.phase \in {"init", "run"} /\ (boot.phase = "init" => c = 0) BY CreatesAppear DEF Creating
<1>6. \A d \in PoolCores : pcall[d].pc \notin Deleting BY <1>1 DEF OnePoolCall, Busy, Creating
<1>7. PICK s \in SortCfg(pcall[c].cfg) : 
        pcall' = [pcall EXCEPT ![c] = [NoPoolCall EXCEPT !.pc = "sub", !.h = h, !.i = 1,
                                                     !.cfg = s, !.name = pcall[c].name]]
  BY DEF Reserve
<1>8. Reserves(c, h, s, pcall[c].name)
  BY <1>1, <1>2, <1>4, <1>5, <1>6, <1>7 DEF Reserves, Reserve, Names
<1>9. /\ PTypeInv' /\ OnePoolCall' /\ PCallsInv' /\ PoolsInv' /\ OdpInv' /\ MapInv'
      /\ Reserved(c, h, pcall[c].name)
  BY <1>4, <1>7, <1>8, ReserveKeeps
<1>10. /\ \A d \in PoolCores : d # c => pcall'[d] = pcall[d]
       /\ pcall'[c].pc = "sub" /\ pcall'[c].h = h
       /\ \A g \in Handles : g # h => pool'[g] = pool[g]
  BY <1>9 DEF Reserved
<1>11. h # Default /\ free' = free \ {h} BY <1>4 DEF Reserve
<1>12. pool'[Default] = pool[Default] /\ Default \notin free' BY <1>4, <1>10, <1>11, ConstantsAre
<1>13. CASE boot.phase = "run"
  <2>1. BootInv' BY <1>10, <1>11, <1>12, <1>13, RunKeeps
  <2> QED BY <1>9, <2>1 DEF PInv
<1>14. CASE boot.phase = "init"
  <2>1. c = 0 /\ InitOK BY <1>5, <1>14 DEF PInv, BootInv
  <2>2. Cardinality(Extra) \in Nat /\ Cardinality(Extra') = Cardinality(Extra) + 1
    BY <1>11, ExtraGrows
  <2>3. Cardinality(Ordered) \in Nat /\ Ordered' = Ordered BY OrderedCounts DEF Ordered
  <2>4. Cardinality(Extra) + 1 <= Cardinality(Ordered) BY <1>14, <2>1 DEF InitOK
  <2>5. Cardinality(Extra') + (IF pcall'[0].pc = "scan" THEN 1 ELSE 0) <= Cardinality(Ordered')
    BY <1>10, <2>1, <2>2, <2>3, <2>4
  <2>6. InitOK' BY <1>4, <1>10, <1>11, <1>12, <1>14, <2>1, <2>5 DEF InitOK
  <2>7. BootInv' BY <1>10, <1>14, <2>1, <2>6, InitKeeps
  <2> QED BY <1>9, <2>7 DEF PInv
<1> QED BY <1>5, <1>13, <1>14

\* ... or finds it empty.
LEMMA ScanMiss ==
  ASSUME PInv, NEW c \in PoolCores, pcall[c].pc = "scan",
         pcall' = [pcall EXCEPT ![c] = IF pcall[c].i + 1 = NumLists THEN NoPoolCall
                                       ELSE [pcall[c] EXCEPT !.i = pcall[c].i + 1]],
         UNCHANGED <<free, pool, odp, odp2em, boot>>
  PROVE  PInv'
<1>1. PTypeInv /\ OnePoolCall /\ boot \in Boot BY DEF PInv, PTypeInv
<1>2. PICK q : q = pcall[c] OBVIOUS
<1>3. q \in PoolCall /\ q.i \in Nat BY <1>1, <1>2 DEF PTypeInv, PoolCall
<1>4. PICK r : r = IF q.i + 1 = NumLists THEN NoPoolCall ELSE [q EXCEPT !.i = q.i + 1] OBVIOUS
<1>5. PoolCallOK(c) BY DEF PInv, PCallsInv
<1>6. q.h = Undef /\ q.cfg \in Cfgs /\ q.name \in {"startup", "app"} /\ Default \notin free
  BY <1>2, <1>5 DEF PoolCallOK
<1>7. \A d \in PoolCores : pcall[d].pc \notin Deleting BY <1>1 DEF OnePoolCall, Busy, Creating
<1>8. /\ r \in PoolCall /\ r.h = Undef
      /\ r.pc = "none" \/ (r.pc = "scan" /\ r.cfg = q.cfg /\ r.name = q.name)
  <2>1. CASE q.i + 1 = NumLists
    <3>1. <<>> \in Seq(Entry) OBVIOUS
    <3> QED BY <1>4, <2>1, <3>1 DEF NoPoolCall, PoolCall, Names
  <2>2. CASE q.i + 1 # NumLists
    <3>1. PICK n \in Nat : n = q.i + 1 BY <1>3
    <3>2. r = [q EXCEPT !.i = n] BY <1>4, <2>2, <3>1
    <3> QED BY <1>2, <1>3, <1>6, <3>2 DEF PoolCall
  <2> QED BY <2>1, <2>2
<1>9. CallTo(c, r) BY <1>2, <1>4, <1>8 DEF CallTo
<1>10. PhaseSeen
  <2>1. boot.phase \in {"init", "run"} BY CreatesAppear DEF Creating
  <2> QED BY <2>1 DEF PhaseSeen
<1>11. Idles(c, r) BY <1>1, <1>2, <1>6, <1>7, <1>8, <1>9, <1>10 DEF Idles
<1>12. PTypeInv' /\ OnePoolCall' /\ PCallsInv' /\ PoolsInv' /\ OdpInv' /\ MapInv'
  BY <1>11, IdleKeeps
<1>13. \A g : InUse(g)' <=> InUse(g) BY DEF InUse
<1>14. BootSeen(c, r)
  BY <1>1, <1>2, <1>6, <1>8, <1>9, <1>13, ConstantsAre DEF BootSeen, PTypeInv, Creating
<1>15. BootInv' BY <1>14, BootKeeps
<1> QED BY <1>12, <1>15 DEF PInv

\* objpool_rem(), one list.
LEMMA ScanStep ==
  ASSUME PInv, NEW c \in PoolCores, Scan(c)
  PROVE  PInv'
<1>1. pcall[c].pc = "scan" /\ UNCHANGED <<odp, odp2em, boot>> BY DEF Scan
<1>2. \/ \E h \in free : Reserve(c, h, pcall[c].cfg, pcall[c].name)
      \/ /\ pcall' = [pcall EXCEPT ![c] = IF pcall[c].i + 1 = NumLists THEN NoPoolCall
                                       ELSE [pcall[c] EXCEPT !.i = pcall[c].i + 1]]
         /\ UNCHANGED <<free, pool>>
  BY DEF Scan, InList
<1> QED BY <1>1, <1>2, ScanHit, ScanMiss

\* No call is made by core c.
LEMMA NotCalling ==
  ASSUME PInv, NEW c \in PoolCores, pcall[c].pc = "none"
  PROVE  pcall[c].h = Undef
<1>1. PoolCallOK(c) BY DEF PInv, PCallsInv
<1> QED BY <1>1 DEF PoolCallOK

\* em_pool_create()
LEMMA AppCreateStep ==
  ASSUME PInv, Exclusive, NEW c \in PoolCores, NEW h \in Handles \cup {Undef}, NEW cfg \in Cfgs,
         AppCreate(c, h, cfg)
  PROVE  PInv'
<1>1. PTypeInv /\ OnePoolCall /\ boot \in Boot BY DEF PInv, PTypeInv
<1>2. /\ boot.phase = "run" /\ pcall[c].pc = "none" /\ UNCHANGED <<odp, odp2em, boot>>
      /\ IF h = Undef THEN CreateAny(c, cfg, "app") ELSE CreateRequested(c, h, cfg, "app")
  BY DEF AppCreate
<1>3. \A d \in PoolCores : pcall[d].pc \notin Deleting BY DEF AppCreate, Busy
<1>4. pcall[c].h = Undef BY <1>2, NotCalling
<1>5. Default \notin free BY <1>2 DEF PInv, BootInv, RunOK
<1>6. CASE h = Undef
  <2>1. PICK r : r = [NoPoolCall EXCEPT !.pc = "scan", !.cfg = cfg, !.name = "app"] OBVIOUS
  <2>2. cfg \in Seq(Entry) BY PoolAssumption DEF Entry
  <2>3. r \in PoolCall /\ r.pc = "scan" /\ r.h = Undef /\ r.cfg = cfg /\ r.name = "app"
    BY <2>1, <2>2 DEF NoPoolCall, PoolCall, Names
  <2>4. pcall' = [pcall EXCEPT ![c] = r] /\ UNCHANGED <<free, pool>> BY <1>2, <1>6, <2>1 DEF CreateAny
  <2>5. CallTo(c, r) BY <2>3, <2>4 DEF CallTo
  <2>6. PhaseSeen BY <1>2 DEF PhaseSeen
  <2>7. Idles(c, r) BY <1>1, <1>2, <1>3, <1>4, <1>5, <2>3, <2>4, <2>5, <2>6 DEF Idles
  <2>8. PTypeInv' /\ OnePoolCall' /\ PCallsInv' /\ PoolsInv' /\ OdpInv' /\ MapInv'
    BY <2>7, IdleKeeps
  <2>9. pcall'[c] = r /\ \A d \in PoolCores : d # c => pcall'[d] = pcall[d] BY <1>1, <2>5, CallToIs
  <2>10. pcall'[c].h # Default BY <2>3, <2>9, ConstantsAre
  <2>11. BootInv' BY <1>2, <1>5, <2>4, <2>9, <2>10, RunKeeps
  <2> QED BY <2>8, <2>11 DEF PInv
<1>7. CASE h # Undef
  <2>1. h \in free /\ Reserve(c, h, cfg, "app") BY <1>2, <1>7 DEF CreateRequested
  <2>2. h \in Handles /\ pool[h] = NoPool /\ Quiet(h) BY <2>1, FreeIs
  <2>3. PICK s \in SortCfg(cfg) :
          pcall' = [pcall EXCEPT ![c] = [NoPoolCall EXCEPT !.pc = "sub", !.h = h, !.i = 1,
                                                       !.cfg = s, !.name = "app"]]
    BY <2>1 DEF Reserve
  <2>4. Reserves(c, h, s, "app") BY <1>1, <1>2, <1>3, <2>1, <2>2, <2>3 DEF Reserves, Reserve, Names
  <2>5. /\ PTypeInv' /\ OnePoolCall' /\ PCallsInv' /\ PoolsInv' /\ OdpInv' /\ MapInv'
        /\ Reserved(c, h, "app")
    BY <2>3, <2>4, ReserveKeeps
  <2>6. /\ \A d \in PoolCores : d # c => pcall'[d] = pcall[d]
        /\ pcall'[c].h = h /\ \A g \in Handles : g # h => pool'[g] = pool[g]
    BY <2>5 DEF Reserved
  <2>7. h # Default /\ Default \notin free' BY <1>5, <2>1 DEF Reserve
  <2>8. pool'[Default] = pool[Default] BY <2>6, <2>7, ConstantsAre
  <2>9. BootInv' BY <1>2, <2>6, <2>7, <2>8, RunKeeps
  <2> QED BY <2>5, <2>9 DEF PInv
<1> QED BY <1>6, <1>7

\* pool_delete() begins with a pool that is there and has all its subpools.
LEMMA DeleteCall ==
  ASSUME PInv, NEW c \in PoolCores, NEW h \in Handles, DeleteStart(c, h), pcall[c].pc = "none",
         Quiet(h), \A i \in DOMAIN pool[h].subs : Live(h, i), \A d \in PoolCores : pcall[d].pc \notin Creating,
         boot' \in Boot, boot'.phase = boot.phase, boot.phase # "term" => ~InUse(h),
         boot.phase \in {"run", "term"}
  PROVE  /\ PTypeInv' /\ OnePoolCall' /\ PCallsInv' /\ PoolsInv' /\ OdpInv' /\ MapInv'
         /\ pcall'[c].h = h /\ pcall'[c].pc = "destroy"
         /\ \A d \in PoolCores : d # c => pcall'[d] = pcall[d]
<1>1. PTypeInv /\ OnePoolCall /\ PoolOK(h) BY DEF PInv, PoolsInv
<1>2. h \notin free /\ UNCHANGED <<free, pool, odp, odp2em>> BY DEF DeleteStart
<1>3. pcall[c].h = Undef /\ h # Undef BY NotCalling, ConstantsAre
<1>4. PICK r : r = [NoPoolCall EXCEPT !.pc = "destroy", !.h = h, !.i = 1] OBVIOUS
<1>5. r \in PoolCall /\ r.pc = "destroy" /\ r.h = h /\ r.i = 1
  <2>1. <<>> \in Seq(Entry) OBVIOUS
  <2> QED BY <1>4, <2>1 DEF NoPoolCall, PoolCall, Names
<1>6. CallTo(c, r)
  <2>1. pcall' = [pcall EXCEPT ![c] = r] BY <1>4 DEF DeleteStart
  <2> QED BY <1>5, <2>1 DEF CallTo
<1>7. /\ pcall'[c] = r /\ \A d \in PoolCores : d # c => pcall'[d] = pcall[d] BY <1>1, <1>6, CallToIs
<1>8. Joins(c, r) BY <1>5, <1>6 DEF Joins, Creating, Quiet
<1>9. PhaseSeen BY DEF PhaseSeen
<1>10. CallOnly(c, r, h) BY <1>2, <1>3, <1>5, <1>8, <1>9 DEF CallOnly
<1>11. PoolCallOK(c)'
  <2>1. DOMAIN pool[h].subs = 1..Len(pool[h].subs) BY <1>1, PTypes
  <2>2. Live(h, 1)' <=> Live(h, 1) BY <1>2 DEF Live
  <2>3. \A i \in 1..Len(pool[h].subs) : Live(h, i)' /\ i > 1 - 1 BY <1>2, <2>1 DEF Live
  <2> QED BY <1>2, <1>3, <1>5, <1>7, <2>3 DEF PoolCallOK
<1>12. PoolOK(h)'
  <2>1. ~Quiet(h)' BY <1>5, <1>7 DEF Quiet
  <2>2. InUse(h)' <=> InUse(h) BY <1>2 DEF InUse
  <2>3. \A i : Live(h, i)' <=> Live(h, i) BY <1>2 DEF Live
  <2> QED BY <1>1, <1>2, <2>1, <2>2, <2>3 DEF PoolOK
<1> QED BY <1>5, <1>7, <1>10, <1>11, <1>12, CallOnlyKeeps

\* em_pool_delete()
LEMMA AppDeleteStep ==
  ASSUME PInv, Exclusive, NEW c \in PoolCores, NEW h \in Handles, AppDelete(c, h)
  PROVE  PInv'
<1>1. /\ boot.phase = "run" /\ pcall[c].pc = "none" /\ h # Default /\ Quiet(h) /\ ~InUse(h)
      /\ DeleteStart(c, h) /\ boot' = boot
  BY DEF AppDelete, Quiet
<1>2. \A d \in PoolCores : pcall[d].pc \notin Creating BY DEF AppDelete, Busy
<1>3. boot \in Boot /\ PoolOK(h) BY DEF PInv, PTypeInv, PoolsInv
<1>4. \A i \in DOMAIN pool[h].subs : Live(h, i) BY <1>1, <1>3 DEF PoolOK
<1>5. /\ PTypeInv' /\ OnePoolCall' /\ PCallsInv' /\ PoolsInv' /\ OdpInv' /\ MapInv'
      /\ pcall'[c].h = h
      /\ \A d \in PoolCores : d # c => pcall'[d] = pcall[d]
  BY <1>1, <1>2, <1>3, <1>4, DeleteCall
<1>6. UNCHANGED <<free, pool>> BY <1>1 DEF DeleteStart
<1>7. Default \notin free BY <1>1 DEF PInv, BootInv, RunOK
<1>8. BootInv' BY <1>1, <1>5, <1>6, <1>7, RunKeeps
<1> QED BY <1>5, <1>8 DEF PInv

-----------------------------------------------------------------------------
(* pool_init() and pool_term() *)

\* No call goes on in pool_init() and pool_term() between two pools.
LEMMA NoneQuiet ==
  ASSUME PInv, (boot.phase # "run" /\ pcall[0].pc = "none") \/ \A d \in PoolCores : pcall[d].pc = "none"
  PROVE  /\ \A d \in PoolCores : pcall[d].pc = "none" /\ pcall[d].h = Undef
         /\ \A h \in Handles : Quiet(h)
<1>1. \A d \in PoolCores : pcall[d].pc = "none" BY DEF PInv, BootInv
<1>2. \A d \in PoolCores : pcall[d].h = Undef BY <1>1, NotCalling
<1> QED BY <1>1, <1>2, ConstantsAre DEF Quiet

\* If all startup pools so far were created, the default pool is there too.
LEMMA DefaultTaken ==
  ASSUME PInv, boot.phase = "init", pcall[0].pc = "none", BootOk
  PROVE  Default \notin free
<1>1. Cardinality(Ordered) \in Nat BY OrderedCounts
<1>2. {k \in 1..boot.next - 1 : boot.conf[k].req # Default} = Ordered BY DEF Ordered, IsDefault
<1>3. Cardinality(Handles \ free) = 1 + Cardinality(Ordered) BY <1>2 DEF BootOk
<1>4. IsFiniteSet(Extra) BY ConstantsAre, FS_Subset DEF Extra
<1>5. Cardinality(Extra) \in Nat BY <1>4, FS_CardinalityType
<1>6. Cardinality(Extra) + 0 <= Cardinality(Ordered) BY DEF PInv, BootInv, InitOK
<1>7. ASSUME Default \in free PROVE FALSE
  <2>1. Handles \ free = Extra BY <1>7 DEF Extra
  <2> QED BY <1>1, <1>3, <1>5, <1>6, <2>1
<1> QED BY <1>7

\* The next startup pool is one of pool_init()'s.
LEMMA StartupIs ==
  ASSUME PInv, boot.phase = "init", boot.next <= Len(boot.conf), NEW conf, conf = boot.conf[boot.next]
  PROVE  /\ conf.req \in Handles \cup {Undef} /\ conf.cfg \in Cfgs /\ boot.next \in DOMAIN boot.conf
         /\ boot.next \in Nat /\ boot.next # 0 /\ Len(boot.conf) \in Nat
<1>1. boot.conf \in Startups /\ boot.next \in Nat /\ boot.next # 0 BY PTypes DEF PInv
<1>2. PICK s \in Seq(Startup) : s = boot.conf BY <1>1, PoolAssumption DEF Startup
<1>3. Len(s) \in Nat /\ DOMAIN s = 1..Len(s) /\ \A k \in 1..Len(s) : s[k] \in Startup
  OBVIOUS
<1>4. boot.next \in 1..Len(s) BY <1>1, <1>2, <1>3
<1>5. conf \in Startup BY <1>2, <1>3, <1>4
<1>6. conf.req \in 0..NumPools /\ conf.cfg \in Cfgs BY <1>5 DEF Startup
<1>7. conf.req \in Handles \cup {Undef} BY <1>6, ConstantsAre DEF Undef
<1> QED BY <1>1, <1>2, <1>3, <1>4, <1>6, <1>7

\* The startup pool conf is passed.
Passes(conf) ==
  /\ boot.phase = "init" /\ pcall[0].pc = "none" /\ BootOk /\ boot.next <= Len(boot.conf)
  /\ conf = boot.conf[boot.next]
  /\ boot' = [boot EXCEPT !.next = @ + 1, !.dflt = @ \/ IsDefault(conf)]

LEMMA PassIs ==
  ASSUME PInv, NEW conf, Passes(conf)
  PROVE  /\ boot' \in Boot /\ boot'.phase = "init" /\ boot'.conf = boot.conf /\ boot'.next = boot.next + 1
         /\ boot'.dflt <=> boot.dflt \/ IsDefault(conf)
         /\ Cardinality(Ordered) \in Nat
         /\ Cardinality(Ordered') = Cardinality(Ordered) + (IF IsDefault(conf) THEN 0 ELSE 1)
         /\ boot.next <= Len(boot.conf) /\ boot'.next <= Len(boot.conf) + 1
         /\ \A k : k \in 1..boot'.next - 1 <=> k \in 1..boot.next - 1 \/ k = boot.next
<1>1. /\ boot.phase = "init" /\ boot.next <= Len(boot.conf) /\ conf = boot.conf[boot.next]
      /\ boot' = [boot EXCEPT !.next = @ + 1, !.dflt = @ \/ IsDefault(conf)]
  BY DEF Passes
<1>2. boot.next \in Nat /\ boot.next # 0 /\ Len(boot.conf) \in Nat BY <1>1, StartupIs
<1>3. boot \in Boot BY DEF PInv, PTypeInv
<1>4. PICK n \in Nat : n = boot.next + 1 BY <1>2
<1>5. PICK d \in BOOLEAN : d <=> boot.dflt \/ IsDefault(conf) OBVIOUS
<1>6. boot.dflt \in BOOLEAN BY <1>3 DEF Boot
<1>7. IsDefault(conf) \in BOOLEAN BY DEF IsDefault
<1>8. (boot.dflt \/ IsDefault(conf)) = d BY <1>5, <1>6, <1>7
<1>9. boot' = [boot EXCEPT !.next = n, !.dflt = d] BY <1>1, <1>3, <1>4, <1>8 DEF Boot
<1>10. /\ boot' \in Boot /\ boot'.phase = "init" /\ boot'.conf = boot.conf /\ boot'.next = n
       /\ boot'.dflt = d
  <2>1. n \in Nat \ {0} BY <1>2, <1>4
  <2>2. boot'.phase = boot.phase /\ boot'.conf = boot.conf /\ boot'.next = n /\ boot'.dflt = d
    BY <1>3, <1>9 DEF Boot
  <2>3. boot' \in Boot BY <1>3, <1>9, <2>1 DEF Boot
  <2> QED BY <1>1, <2>2, <2>3
<1>11. \A k : k \in 1..boot'.next - 1 <=> k \in 1..boot.next - 1 \/ k = boot.next
  BY <1>2, <1>4, <1>10
<1>12. IsFiniteSet(Ordered) /\ Cardinality(Ordered) \in Nat BY OrderedCounts
<1>13. boot.next \notin Ordered BY <1>2 DEF Ordered
<1>14. ASSUME IsDefault(conf) PROVE Cardinality(Ordered') = Cardinality(Ordered) + 0
  <2>1. Ordered' = Ordered BY <1>1, <1>10, <1>11, <1>14 DEF Ordered, IsDefault
  <2> QED BY <1>12, <2>1
<1>15. ASSUME ~IsDefault(conf) PROVE Cardinality(Ordered') = Cardinality(Ordered) + 1
  <2>1. Ordered' = Ordered \cup {boot.next} BY <1>1, <1>10, <1>11, <1>15 DEF Ordered, IsDefault
  <2>2. Cardinality(Ordered \cup {boot.next}) = Cardinality(Ordered) + 1
    BY <1>12, <1>13, FS_AddElement
  <2> QED BY <2>1, <2>2
<1>16. Cardinality(Ordered') = Cardinality(Ordered) + (IF IsDefault(conf) THEN 0 ELSE 1)
  BY <1>14, <1>15
<1>17. boot'.next = boot.next + 1 /\ boot'.next <= Len(boot.conf) + 1 BY <1>1, <1>2, <1>4, <1>10
<1>18. boot'.dflt <=> boot.dflt \/ IsDefault(conf) BY <1>5, <1>10
<1> QED BY <1>1, <1>10, <1>11, <1>12, <1>16, <1>17, <1>18

\* A startup pool that is the default pool takes the element kept for it.
LEMMA StartupDefault ==
  ASSUME PInv, OneDefault, NEW conf, Passes(conf), IsDefault(conf), Reserve(0, Default, conf.cfg, "default"),
         UNCHANGED <<odp, odp2em>>
  PROVE  PInv'
<1>1. /\ boot.phase = "init" /\ pcall[0].pc = "none" /\ boot.next <= Len(boot.conf)
      /\ conf = boot.conf[boot.next]
  BY DEF Passes
<1>2. conf.cfg \in Cfgs /\ boot.next \in DOMAIN boot.conf /\ boot.next \in Nat /\ Len(boot.conf) \in Nat
      /\ boot.next # 0
  BY <1>1, StartupIs
<1>3. boot.conf \in Startups /\ boot.dflt \in BOOLEAN BY PTypes DEF PInv
<1>4. InitOK BY DEF PInv, BootInv
<1>5. ~boot.dflt
  <2>1. ASSUME boot.dflt PROVE FALSE
    <3>1. PICK k \in 1..boot.next - 1 : IsDefault(boot.conf[k])
      BY <1>1, <1>2, <1>4, <2>1 DEF InitOK
    <3>2. PICK s \in Seq(Startup) : s = boot.conf BY <1>3, PoolAssumption DEF Startup
    <3>3. k \in DOMAIN s BY <1>1, <1>2, <3>1, <3>2
    <3>4. k = boot.next BY <1>1, <1>2, <1>3, <3>1, <3>2, <3>3 DEF OneDefault
    <3> QED BY <1>2, <3>1, <3>4
  <2> QED BY <2>1
<1>6. Default \notin free /\ pool[Default] = NoPool BY <1>1, <1>4, <1>5 DEF InitOK
<1>7. /\ \A d \in PoolCores : pcall[d].pc = "none" /\ pcall[d].h = Undef
      /\ Quiet(Default) /\ Default \in Handles /\ 0 \in PoolCores
  BY <1>1, NoneQuiet, ConstantsAre
<1>8. /\ boot' \in Boot /\ boot'.phase = "init" /\ boot'.conf = boot.conf /\ boot'.next = boot.next + 1
      /\ boot'.dflt <=> boot.dflt \/ IsDefault(conf)
      /\ Cardinality(Ordered) \in Nat
      /\ Cardinality(Ordered') = Cardinality(Ordered) + (IF IsDefault(conf) THEN 0 ELSE 1)
      /\ boot'.next <= Len(boot.conf) + 1
      /\ \A k : k \in 1..boot'.next - 1 <=> k \in 1..boot.next - 1 \/ k = boot.next
  BY PassIs
<1>9. PICK s \in SortCfg(conf.cfg) :
        pcall' = [pcall EXCEPT ![0] = [NoPoolCall EXCEPT !.pc = "sub", !.h = Default, !.i = 1,
                                                     !.cfg = s, !.name = "default"]]
  BY DEF Reserve
<1>10. Reserves(0, Default, s, "default")
  BY <1>1, <1>6, <1>7, <1>8, <1>9 DEF Reserves, Reserve, Names, Deleting
<1>11. /\ PTypeInv' /\ OnePoolCall' /\ PCallsInv' /\ PoolsInv' /\ OdpInv' /\ MapInv'
       /\ Reserved(0, Default, "default")
  BY <1>2, <1>7, <1>9, <1>10, ReserveKeeps
<1>12. /\ \A d \in PoolCores : d # 0 => pcall'[d] = pcall[d]
       /\ pcall'[0].pc = "sub" /\ pool'[Default].name = "default" /\ free' = free \ {Default}
  BY <1>11 DEF Reserved, Reserve
<1>13. Extra' = Extra BY <1>12 DEF Extra
<1>14. Cardinality(Extra) \in Nat
  <2>1. IsFiniteSet(Extra) BY ConstantsAre, FS_Subset DEF Extra
  <2> QED BY <2>1, FS_CardinalityType
<1>15. Cardinality(Extra) + 0 <= Cardinality(Ordered) BY <1>1, <1>4 DEF InitOK
<1>16. Cardinality(Extra') + (IF pcall'[0].pc = "scan" THEN 1 ELSE 0) <= Cardinality(Ordered')
  BY <1>8, <1>12, <1>13, <1>14, <1>15
<1>17. boot'.dflt /\ \E k \in 1..boot'.next - 1 : IsDefault(boot'.conf[k])
  BY <1>1, <1>8 DEF IsDefault
<1>18. InitOK' BY <1>8, <1>12, <1>16, <1>17 DEF InitOK
<1>19. BootInv' BY <1>1, <1>8, <1>12, <1>18, InitKeeps
<1> QED BY <1>11, <1>19 DEF PInv

\* A startup pool with a handle that is free.
LEMMA StartupRequested ==
  ASSUME PInv, NEW conf, Passes(conf), ~IsDefault(conf), conf.req # Undef,
         CreateRequested(0, conf.req, conf.cfg, "startup"), UNCHANGED <<odp, odp2em>>
  PROVE  PInv'
<1>1. /\ boot.phase = "init" /\ pcall[0].pc = "none" /\ boot.next <= Len(boot.conf)
      /\ conf = boot.conf[boot.next]
  BY DEF Passes
<1>2. PICK h : h = conf.req OBVIOUS
<1>3. h \in free /\ Reserve(0, h, conf.cfg, "startup") /\ h # Default
  BY <1>2 DEF CreateRequested, IsDefault
<1>4. conf.cfg \in Cfgs /\ boot.next \in Nat /\ Len(boot.conf) \in Nat BY <1>1, StartupIs
<1>5. h \in Handles /\ pool[h] = NoPool /\ Quiet(h) BY <1>3, FreeIs
<1>6. /\ \A d \in PoolCores : pcall[d].pc = "none" /\ pcall[d].h = Undef
      /\ Default \in Handles /\ 0 \in PoolCores
  BY <1>1, NoneQuiet, ConstantsAre
<1>7. /\ boot' \in Boot /\ boot'.phase = "init" /\ boot'.conf = boot.conf /\ boot'.next = boot.next + 1
      /\ boot'.dflt <=> boot.dflt \/ IsDefault(conf)
      /\ Cardinality(Ordered) \in Nat
      /\ Cardinality(Ordered') = Cardinality(Ordered) + (IF IsDefault(conf) THEN 0 ELSE 1)
      /\ boot'.next <= Len(boot.conf) + 1
      /\ \A k : k \in 1..boot'.next - 1 <=> k \in 1..boot.next - 1 \/ k = boot.next
  BY PassIs
<1>8. PICK s \in SortCfg(conf.cfg) :
        pcall' = [pcall EXCEPT ![0] = [NoPoolCall EXCEPT !.pc = "sub", !.h = h, !.i = 1,
                                                     !.cfg = s, !.name = "startup"]]
  BY <1>3 DEF Reserve
<1>9. Reserves(0, h, s, "startup")
  BY <1>1, <1>3, <1>5, <1>6, <1>7, <1>8 DEF Reserves, Reserve, Names, Deleting
<1>10. /\ PTypeInv' /\ OnePoolCall' /\ PCallsInv' /\ PoolsInv' /\ OdpInv' /\ MapInv'
       /\ Reserved(0, h, "startup")
  BY <1>4, <1>6, <1>8, <1>9, ReserveKeeps
<1>11. /\ \A d \in PoolCores : d # 0 => pcall'[d] = pcall[d]
       /\ pcall'[0].pc = "sub" /\ pcall'[0].h = h /\ free' = free \ {h}
       /\ pool'[Default] = pool[Default]
  BY <1>3, <1>6, <1>10 DEF Reserved, Reserve
<1>12. Cardinality(Extra) \in Nat /\ Cardinality(Extra') = Cardinality(Extra) + 1
  BY <1>3, <1>11, ExtraGrows
<1>13. InitOK BY DEF PInv, BootInv
<1>14. Cardinality(Extra) + 0 <= Cardinality(Ordered) BY <1>1, <1>13 DEF InitOK
<1>15. Cardinality(Extra') + (IF pcall'[0].pc = "scan" THEN 1 ELSE 0) <= Cardinality(Ordered')
  BY <1>7, <1>11, <1>12, <1>14
<1>16. ASSUME ~boot'.dflt
       PROVE  /\ Default \notin free' /\ pool'[Default] = NoPool /\ pcall'[0].h # Default
              /\ \A k \in 1..boot'.next - 1 : ~IsDefault(boot'.conf[k])
  BY <1>1, <1>3, <1>7, <1>11, <1>13, <1>16 DEF InitOK
<1>17. ASSUME boot'.dflt
       PROVE  /\ Default \in free' \/ pool'[Default].name = "default"
              /\ \E k \in 1..boot'.next - 1 : IsDefault(boot'.conf[k])
  <2>1. boot.dflt BY <1>7, <1>17
  <2>2. \E k \in 1..boot.next - 1 : IsDefault(boot.conf[k]) BY <1>1, <1>4, <1>13, <2>1 DEF InitOK
  <2>3. Default \in free \/ pool[Default].name = "default" BY <1>1, <1>13, <2>1 DEF InitOK
  <2> QED BY <1>3, <1>7, <1>11, <2>2, <2>3
<1>18. InitOK' BY <1>7, <1>15, <1>16, <1>17 DEF InitOK, IsDefault
<1>19. BootInv' BY <1>1, <1>7, <1>11, <1>18, InitKeeps
<1> QED BY <1>10, <1>19 DEF PInv

\* A startup pool whose handle is taken, or that has none.
LEMMA StartupIdle ==
  ASSUME PInv, NEW conf, Passes(conf), ~IsDefault(conf), UNCHANGED <<free, pool, odp, odp2em>>,
         \/ UNCHANGED pcall
         \/ CreateAny(0, conf.cfg, "startup")
  PROVE  PInv'
<1>1. /\ boot.phase = "init" /\ pcall[0].pc = "none" /\ boot.next <= Len(boot.conf) /\ BootOk
      /\ conf = boot.conf[boot.next]
  BY DEF Passes
<1>2. conf.cfg \in Cfgs /\ boot.next \in Nat /\ Len(boot.conf) \in Nat BY <1>1, StartupIs
<1>3. /\ \A d \in PoolCores : pcall[d].pc = "none" /\ pcall[d].h = Undef
      /\ Default \in Handles /\ 0 \in PoolCores /\ Default # Undef
  BY <1>1, NoneQuiet, ConstantsAre
<1>4. /\ boot' \in Boot /\ boot'.phase = "init" /\ boot'.conf = boot.conf /\ boot'.next = boot.next + 1
      /\ boot'.dflt <=> boot.dflt \/ IsDefault(conf)
      /\ Cardinality(Ordered) \in Nat
      /\ Cardinality(Ordered') = Cardinality(Ordered) + (IF IsDefault(conf) THEN 0 ELSE 1)
      /\ boot'.next <= Len(boot.conf) + 1
      /\ \A k : k \in 1..boot'.next - 1 <=> k \in 1..boot.next - 1 \/ k = boot.next
  BY PassIs
<1>5. Default \notin free BY <1>1, DefaultTaken
<1>6. PTypeInv BY DEF PInv
<1>7. \E r : CallTo(0, r) /\ r.h = Undef /\ (r.pc = "none" \/ (r.pc = "scan" /\ r.cfg = conf.cfg /\ r.name = "startup"))
  <2>1. CASE UNCHANGED pcall
    <3>1. pcall[0] \in PoolCall /\ pcall' = [pcall EXCEPT ![0] = pcall[0]]
      BY <1>3, <1>6, <2>1 DEF PTypeInv
    <3> QED BY <1>3, <3>1 DEF CallTo
  <2>2. CASE CreateAny(0, conf.cfg, "startup")
    <3>1. PICK r : r = [NoPoolCall EXCEPT !.pc = "scan", !.cfg = conf.cfg, !.name = "startup"] OBVIOUS
    <3>2. conf.cfg \in Seq(Entry) BY <1>2, PoolAssumption DEF Entry
    <3>3. r \in PoolCall /\ r.pc = "scan" /\ r.h = Undef /\ r.cfg = conf.cfg /\ r.name = "startup"
      BY <3>1, <3>2 DEF NoPoolCall, PoolCall, Names
    <3>4. pcall' = [pcall EXCEPT ![0] = r] BY <2>2, <3>1 DEF CreateAny
    <3> QED BY <3>3, <3>4 DEF CallTo
  <2> QED BY <2>1, <2>2
<1>8. PICK r : CallTo(0, r) /\ r.h = Undef /\ (r.pc = "none" \/ (r.pc = "scan" /\ r.cfg = conf.cfg /\ r.name = "startup"))
  BY <1>7
<1>9. pcall'[0] = r /\ \A d \in PoolCores : d # 0 => pcall'[d] = pcall[d]
  BY <1>3, <1>6, <1>8, CallToIs
<1>10. PhaseSeen BY <1>1, <1>4 DEF PhaseSeen
<1>11. Idles(0, r) BY <1>2, <1>3, <1>4, <1>5, <1>8, <1>10 DEF Idles, Deleting
<1>12. PTypeInv' /\ OnePoolCall' /\ PCallsInv' /\ PoolsInv' /\ OdpInv' /\ MapInv'
  BY <1>3, <1>11, IdleKeeps
<1>13. InitOK BY DEF PInv, BootInv
<1>14. Extra' = Extra BY DEF Extra
<1>15. Cardinality(Extra) \in Nat
  <2>1. IsFiniteSet(Extra) BY ConstantsAre, FS_Subset DEF Extra
  <2> QED BY <2>1, FS_CardinalityType
<1>16. Cardinality(Extra) + 0 <= Cardinality(Ordered) BY <1>1, <1>13 DEF InitOK
<1>17. Cardinality(Extra') + (IF pcall'[0].pc = "scan" THEN 1 ELSE 0) <= Cardinality(Ordered')
  BY <1>4, <1>14, <1>15, <1>16
<1>18. ASSUME ~boot'.dflt
       PROVE  /\ Default \notin free' /\ pool'[Default] = NoPool /\ pcall'[0].h # Default
              /\ \A k \in 1..boot'.next - 1 : ~IsDefault(boot'.conf[k])
  BY <1>1, <1>3, <1>4, <1>5, <1>8, <1>9, <1>13, <1>18 DEF InitOK
<1>19. ASSUME boot'.dflt
       PROVE  /\ Default \in free' \/ pool'[Default].name = "default"
              /\ \E k \in 1..boot'.next - 1 : IsDefault(boot'.conf[k])
  <2>1. boot.dflt BY <1>4, <1>19
  <2>2. \E k \in 1..boot.next - 1 : IsDefault(boot.conf[k]) BY <1>1, <1>2, <1>13, <2>1 DEF InitOK
  <2>3. Default \in free \/ pool[Default].name = "default" BY <1>1, <1>13, <2>1 DEF InitOK
  <2> QED BY <1>4, <2>2, <2>3
<1>20. InitOK' BY <1>4, <1>17, <1>18, <1>19 DEF InitOK, IsDefault
<1>21. BootInv' BY <1>1, <1>4, <1>9, <1>20, InitKeeps
<1> QED BY <1>12, <1>21 DEF PInv

\* The next startup pool.
LEMMA BootStartupStep ==
  ASSUME PInv, OneDefault, BootStartup
  PROVE  PInv'
<1>1. PICK conf : conf = boot.conf[boot.next] OBVIOUS
<1>2. Passes(conf) BY <1>1 DEF BootStartup, Passes
<1>3. UNCHANGED <<odp, odp2em>> BY DEF BootStartup
<1>4. \/ IsDefault(conf) /\ Reserve(0, Default, conf.cfg, "default")
      \/ ~IsDefault(conf) /\ conf.req # Undef /\ CreateRequested(0, conf.req, conf.cfg, "startup")
      \/ ~IsDefault(conf) /\ conf.req \notin free \cup {Undef} /\ UNCHANGED <<free, pool, pcall>>
      \/ conf.req = Undef /\ CreateAny(0, conf.cfg, "startup")
  BY <1>1 DEF BootStartup
<1>5. conf.req = Undef => ~IsDefault(conf) BY ConstantsAre DEF IsDefault
<1>6. CASE IsDefault(conf) /\ Reserve(0, Default, conf.cfg, "default")
  BY <1>2, <1>3, <1>6, StartupDefault
<1>7. CASE ~IsDefault(conf) /\ conf.req # Undef /\ CreateRequested(0, conf.req, conf.cfg, "startup")
  BY <1>2, <1>3, <1>7, StartupRequested
<1>8. CASE ~IsDefault(conf) /\ UNCHANGED <<free, pool, pcall>>
  BY <1>2, <1>3, <1>8, StartupIdle
<1>9. CASE conf.req = Undef /\ CreateAny(0, conf.cfg, "startup")
  <2>1. UNCHANGED <<free, pool, odp, odp2em>> BY <1>3, <1>9 DEF CreateAny
  <2> QED BY <1>2, <1>5, <1>9, <2>1, StartupIdle
<1> QED BY <1>4, <1>6, <1>7, <1>8, <1>9

\* The default pool, if no startup pool was.
LEMMA BootDefaultStep ==
  ASSUME PInv, BootDefault
  PROVE  PInv'
<1>1. /\ boot.phase = "init" /\ pcall[0].pc = "none" /\ boot.next > Len(boot.conf) /\ ~boot.dflt
      /\ boot' = [boot EXCEPT !.dflt = TRUE] /\ UNCHANGED <<odp, odp2em>>
  BY DEF BootDefault
<1>2. PICK cfg \in Cfgs : Reserve(0, Default, cfg, "default") BY DEF BootDefault
<1>3. InitOK /\ boot \in Boot BY DEF PInv, BootInv, PTypeInv
<1>4. Default \notin free /\ pool[Default] = NoPool BY <1>1, <1>3 DEF InitOK
<1>5. /\ \A d \in PoolCores : pcall[d].pc = "none" /\ pcall[d].h = Undef
      /\ Quiet(Default) /\ Default \in Handles /\ 0 \in PoolCores
  BY <1>1, NoneQuiet, ConstantsAre
<1>6. /\ boot' \in Boot /\ boot'.phase = "init" /\ boot'.conf = boot.conf /\ boot'.next = boot.next
      /\ boot'.dflt
  BY <1>1, <1>3 DEF Boot
<1>7. PICK s \in SortCfg(cfg) :
        pcall' = [pcall EXCEPT ![0] = [NoPoolCall EXCEPT !.pc = "sub", !.h = Default, !.i = 1,
                                                     !.cfg = s, !.name = "default"]]
  BY <1>2 DEF Reserve
<1>8. Reserves(0, Default, s, "default")
  BY <1>1, <1>2, <1>4, <1>5, <1>6, <1>7 DEF Reserves, Reserve, Names, Deleting
<1>9. /\ PTypeInv' /\ OnePoolCall' /\ PCallsInv' /\ PoolsInv' /\ OdpInv' /\ MapInv'
      /\ Reserved(0, Default, "default")
  BY <1>5, <1>7, <1>8, ReserveKeeps
<1>10. /\ \A d \in PoolCores : d # 0 => pcall'[d] = pcall[d]
       /\ pcall'[0].pc = "sub" /\ pool'[Default].name = "default" /\ free' = free \ {Default}
  BY <1>2, <1>9 DEF Reserved, Reserve
<1>11. Extra' = Extra /\ Ordered' = Ordered BY <1>6, <1>10 DEF Extra, Ordered
<1>12. Cardinality(Extra) + 0 <= Cardinality(Ordered) BY <1>1, <1>3 DEF InitOK
<1>13. Cardinality(Extra') + (IF pcall'[0].pc = "scan" THEN 1 ELSE 0) <= Cardinality(Ordered')
  BY <1>10, <1>11, <1>12
<1>14. boot'.next > Len(boot'.conf) /\ boot'.next <= Len(boot'.conf) + 1
  BY <1>1, <1>3, <1>6 DEF InitOK
<1>15. InitOK' BY <1>6, <1>10, <1>13, <1>14 DEF InitOK
<1>16. BootInv' BY <1>1, <1>6, <1>10, <1>15, InitKeeps
<1> QED BY <1>9, <1>16 DEF PInv

\* A step of pool_init() or pool_term() that makes no call.
LEMMA NoCallKeeps ==
  ASSUME PInv, boot' \in Boot, PhaseSeen, UNCHANGED <<free, pool, odp, odp2em, pcall>>,
         (boot.phase # "run" /\ pcall[0].pc = "none") \/ \A d \in PoolCores : pcall[d].pc = "none"
  PROVE  /\ PTypeInv' /\ OnePoolCall' /\ PCallsInv' /\ PoolsInv' /\ OdpInv' /\ MapInv'
         /\ \A d \in PoolCores : pcall[d].pc = "none" /\ pcall[d].h = Undef
         /\ \A h \in Handles : Quiet(h)
<1>1. /\ \A d \in PoolCores : pcall[d].pc = "none" /\ pcall[d].h = Undef
      /\ \A h \in Handles : Quiet(h)
  BY NoneQuiet
<1>2. 0 \in PoolCores /\ PTypeInv BY ConstantsAre DEF PInv
<1>3. PICK r : r = pcall[0] OBVIOUS
<1>4. r \in PoolCall /\ pcall' = [pcall EXCEPT ![0] = r] BY <1>2, <1>3 DEF PTypeInv
<1>5. CallTo(0, r) BY <1>4 DEF CallTo
<1>6. Idles(0, r) BY <1>1, <1>2, <1>3, <1>5 DEF Idles
<1> QED BY <1>1, <1>2, <1>6, IdleKeeps

\* pool_init() ends.
LEMMA BootEndStep ==
  ASSUME PInv, BootEnd
  PROVE  PInv'
<1>1. /\ boot.phase = "init" /\ pcall[0].pc = "none" /\ UNCHANGED <<free, pool, odp, odp2em, pcall>>
      /\ ~BootOk \/ (boot.next > Len(boot.conf) /\ boot.dflt)
      /\ boot' = [boot EXCEPT !.phase = IF BootOk THEN "run" ELSE "failed"]
  BY DEF BootEnd
<1>2. boot \in Boot /\ InitOK BY DEF PInv, PTypeInv, BootInv
<1>3. PICK f : f = IF BootOk THEN "run" ELSE "failed" OBVIOUS
<1>4. boot' = [boot EXCEPT !.phase = f] /\ f \in {"run", "failed"} BY <1>1, <1>3
<1>5. boot' \in Boot /\ boot'.phase = f BY <1>2, <1>4 DEF Boot
<1>6. PhaseSeen BY <1>1, <1>4, <1>5 DEF PhaseSeen
<1>7. /\ PTypeInv' /\ OnePoolCall' /\ PCallsInv' /\ PoolsInv' /\ OdpInv' /\ MapInv'
      /\ \A d \in PoolCores : pcall[d].pc = "none" /\ pcall[d].h = Undef
      /\ \A h \in Handles : Quiet(h)
  BY <1>1, <1>5, <1>6, NoCallKeeps
<1>8. RunOK'
  <2>1. ASSUME f = "run" PROVE Default \notin free /\ pool[Default].name = "default" /\ Quiet(Default)
    <3>1. BootOk BY <1>3, <2>1
    <3>2. Default \notin free BY <1>1, <3>1, DefaultTaken
    <3>3. boot.dflt BY <1>1, <3>1
    <3>4. pool[Default].name = "default" BY <1>1, <1>2, <3>2, <3>3 DEF InitOK
    <3> QED BY <1>7, <3>2, <3>4, ConstantsAre
  <2>2. Quiet(Default)' <=> Quiet(Default) BY <1>1 DEF Quiet
  <2> QED BY <1>1, <1>5, <2>1, <2>2 DEF RunOK
<1>9. BootInv' BY <1>1, <1>4, <1>5, <1>7, <1>8, ConstantsAre DEF BootInv, InitOK, TermOK
<1> QED BY <1>7, <1>9 DEF PInv

\* pool_term() begins.
LEMMA TermBeginStep ==
  ASSUME PInv, TermBegin
  PROVE  PInv'
<1>1. /\ boot.phase = "run" /\ \A c \in PoolCores : pcall[c].pc = "none"
      /\ boot' = [boot EXCEPT !.phase = "term", !.next = 1]
      /\ UNCHANGED <<free, pool, odp, odp2em, pcall>>
  BY DEF TermBegin
<1>2. boot \in Boot BY DEF PInv, PTypeInv
<1>3. boot' \in Boot /\ boot'.phase = "term" /\ boot'.next = 1
  <2>1. 1 \in Nat \ {0} OBVIOUS
  <2> QED BY <1>1, <1>2, <2>1 DEF Boot
<1>4. PhaseSeen BY <1>1, <1>3 DEF PhaseSeen
<1>5. /\ PTypeInv' /\ OnePoolCall' /\ PCallsInv' /\ PoolsInv' /\ OdpInv' /\ MapInv'
      /\ \A d \in PoolCores : pcall[d].pc = "none" /\ pcall[d].h = Undef
      /\ \A h \in Handles : Quiet(h)
  BY <1>1, <1>3, <1>4, NoCallKeeps
<1>6. TermOK'
  <2>1. \A h \in Handles : ~(h < 1) BY ConstantsAre
  <2>2. ASSUME NEW h \in Handles PROVE \A i \in DOMAIN pool'[h].subs : Live(h, i)'
    <3>1. PoolOK(h) BY DEF PInv, PoolsInv
    <3>2. \A i \in DOMAIN pool[h].subs : Live(h, i) BY <1>1, <1>5, <3>1 DEF PoolOK
    <3> QED BY <1>1, <3>2 DEF Live
  <2>3. pcall'[0].h < 1 /\ pcall'[0].pc \notin Creating
    BY <1>1, <1>5, ConstantsAre DEF Creating, Undef
  <2> QED BY <1>3, <2>1, <2>2, <2>3 DEF TermOK
<1>7. BootInv' BY <1>1, <1>3, <1>6 DEF BootInv, InitOK, RunOK
<1> QED BY <1>5, <1>7 DEF PInv

\* Deletes the next pool.
LEMMA TermNextStep ==
  ASSUME PInv, TermNext
  PROVE  PInv'
<1>1. /\ boot.phase = "term" /\ pcall[0].pc = "none" /\ boot.next <= NumPools
      /\ boot' = [boot EXCEPT !.next = @ + 1]
      /\ IF boot.next \in free
         THEN UNCHANGED <<free, pool, odp, odp2em, pcall>>
         ELSE DeleteStart(0, boot.next)
  BY DEF TermNext
<1>2. PICK h : h = boot.next OBVIOUS
<1>3. boot \in Boot /\ TermOK /\ h \in Nat /\ h # 0 BY <1>2, PTypes DEF PInv, PTypeInv, BootInv
<1>4. h \in Handles /\ 0 \in PoolCores BY <1>1, <1>2, <1>3, ConstantsAre
<1>5. PICK n \in Nat : n = h + 1 BY <1>3
<1>6. boot' \in Boot /\ boot'.phase = "term" /\ boot'.next = n
  <2>1. n \in Nat \ {0} /\ boot' = [boot EXCEPT !.next = n] BY <1>1, <1>2, <1>3, <1>5 DEF Boot
  <2> QED BY <1>1, <1>3, <2>1 DEF Boot
<1>7. \A g \in Handles : g \in Nat /\ (g < n => g < h \/ g = h) /\ (g >= n => g >= h /\ g # h)
  BY <1>3, <1>5, ConstantsAre
<1>8. /\ \A d \in PoolCores : pcall[d].pc = "none" /\ pcall[d].h = Undef
      /\ \A g \in Handles : Quiet(g)
  BY <1>1, NoneQuiet
<1>9. /\ \A g \in Handles : g < h /\ g \notin free /\ Quiet(g) => InUse(g)
      /\ \A g \in Handles : g >= h => \A i \in DOMAIN pool[g].subs : Live(g, i)
  BY <1>1, <1>2, <1>3 DEF TermOK
<1>10. UNCHANGED <<free, pool, odp, odp2em>> BY <1>1 DEF DeleteStart
<1>11. \A g \in Handles : (InUse(g)' <=> InUse(g)) /\ \A i : Live(g, i)' <=> Live(g, i)
  BY <1>10 DEF InUse, Live
<1>12. \A g \in Handles : g >= n => \A i \in DOMAIN pool'[g].subs : Live(g, i)'
  BY <1>7, <1>9, <1>10, <1>11
<1>13. CASE h \in free
  <2>1. UNCHANGED <<free, pool, odp, odp2em, pcall>> BY <1>1, <1>2, <1>13
  <2>2. PhaseSeen BY <1>1, <1>6 DEF PhaseSeen
  <2>3. PTypeInv' /\ OnePoolCall' /\ PCallsInv' /\ PoolsInv' /\ OdpInv' /\ MapInv'
    BY <1>1, <1>6, <2>1, <2>2, NoCallKeeps
  <2>4. \A g \in Handles : g < n /\ g \notin free' => InUse(g)'
    BY <1>7, <1>8, <1>9, <1>10, <1>11, <1>13
  <2>5. pcall'[0].h < n /\ pcall'[0].pc \notin Creating
    BY <1>3, <1>4, <1>5, <1>8, <2>1 DEF Creating, Undef
  <2>6. TermOK' BY <1>6, <1>12, <2>4, <2>5 DEF TermOK
  <2>7. BootInv' BY <1>6, <1>8, <2>1, <2>6 DEF BootInv, InitOK, RunOK
  <2> QED BY <2>3, <2>7 DEF PInv
<1>14. CASE h \notin free
  <2>1. DeleteStart(0, h) BY <1>1, <1>2, <1>14
  <2>2. h >= h BY <1>3
  <2>3. \A i \in DOMAIN pool[h].subs : Live(h, i) BY <1>4, <1>9, <2>2
  <2>4. \A d \in PoolCores : pcall[d].pc \notin Creating BY <1>8 DEF Creating
  <2>5. /\ PTypeInv' /\ OnePoolCall' /\ PCallsInv' /\ PoolsInv' /\ OdpInv' /\ MapInv'
        /\ pcall'[0].h = h /\ pcall'[0].pc = "destroy"
        /\ \A d \in PoolCores : d # 0 => pcall'[d] = pcall[d]
    BY <1>1, <1>4, <1>6, <1>8, <2>1, <2>3, <2>4, DeleteCall
  <2>6. ~Quiet(h)' BY <1>4, <2>5 DEF Quiet
  <2>7. \A g \in Handles : g < n /\ g \notin free' /\ Quiet(g)' => InUse(g)'
    BY <1>7, <1>8, <1>9, <1>10, <1>11, <2>6
  <2>8. pcall'[0].h < n /\ pcall'[0].pc \notin Creating
    BY <1>3, <1>5, <2>5 DEF Creating
  <2>9. TermOK' BY <1>6, <1>12, <2>7, <2>8 DEF TermOK
  <2>10. BootInv' BY <1>6, <1>8, <2>5, <2>9 DEF BootInv, InitOK, RunOK
  <2> QED BY <2>5, <2>10 DEF PInv
<1> QED BY <1>13, <1>14

\* And has looked at all.
LEMMA TermEndStep ==
  ASSUME PInv, TermEnd
  PROVE  PInv'
<1>1. /\ boot.phase = "term" /\ pcall[0].pc = "none" /\ boot.next > NumPools
      /\ boot' = [boot EXCEPT !.phase = "done"]
      /\ UNCHANGED <<free, pool, odp, odp2em, pcall>>
  BY DEF TermEnd
<1>2. boot \in Boot /\ TermOK BY DEF PInv, PTypeInv, BootInv
<1>3. boot' \in Boot /\ boot'.phase = "done" /\ boot'.next = boot.next BY <1>1, <1>2 DEF Boot
<1>4. \A d \in PoolCores : pcall[d].pc = "none" /\ pcall[d].h = Undef BY <1>1, NoneQuiet
<1>5. PhaseSeen BY <1>1, <1>3, <1>4 DEF PhaseSeen
<1>6. PTypeInv' /\ OnePoolCall' /\ PCallsInv' /\ PoolsInv' /\ OdpInv' /\ MapInv'
  BY <1>1, <1>3, <1>5, NoCallKeeps
<1>7. \A g \in Handles : (InUse(g)' <=> InUse(g)) /\ (Quiet(g)' <=> Quiet(g)) /\ \A i : Live(g, i)' <=> Live(g, i)
  BY <1>1 DEF InUse, Live, Quiet
<1>8. TermOK' BY <1>1, <1>2, <1>3, <1>7 DEF TermOK
<1>9. BootInv' BY <1>1, <1>3, <1>4, <1>8, ConstantsAre DEF BootInv, InitOK, RunOK
<1> QED BY <1>6, <1>9 DEF PInv

-----------------------------------------------------------------------------
(* The invariant *)

\* Before pool_init() creates the first pool.
LEMMA PInitIs ==
  ASSUME PoolInit
  PROVE  PInv
<1>1. /\ free = Handles \ {Default}
      /\ pool = [h \in Handles |-> NoPool]
      /\ odp = [x \in OdpIdx |-> NoOdp]
      /\ odp2em = [x \in OdpIdx |-> NoMap]
      /\ pcall = [c \in PoolCores |-> NoPoolCall]
  BY DEF PoolInit
<1>2. PICK s \in Startups : boot = [phase |-> "init", conf |-> s, next |-> 1, dflt |-> FALSE]
  BY DEF PoolInit
<1>3. boot.phase = "init" /\ boot.conf = s /\ boot.next = 1 /\ boot.dflt = FALSE BY <1>2
<1>4. /\ \A c \in PoolCores : pcall[c].pc = "none" /\ pcall[c].h = Undef
      /\ \A h \in Handles : pool[h].subs = <<>> /\ pool[h].name = "none" /\ DOMAIN pool[h].subs = {}
                            /\ Len(pool[h].subs) = 0
      /\ \A x \in OdpIdx : odp[x] = NoOdp /\ odp2em[x] = NoMap
  <2>1. NoPool.subs = <<>> /\ NoPool.name = "none" BY DEF NoPool
  <2>2. DOMAIN <<>> = {} /\ Len(<<>>) = 0 OBVIOUS
  <2>3. NoPoolCall.pc = "none" /\ NoPoolCall.h = Undef BY DEF NoPoolCall
  <2> QED BY <1>1, <2>1, <2>2, <2>3
<1>5. PTypeInv
  <2>1. <<>> \in Seq(Entry) /\ <<>> \in Seq(Subpool) OBVIOUS
  <2>2. NoPool \in [name : Names, subs : Seq(Subpool)] BY <2>1 DEF NoPool, Names
  <2>3. NoOdp \in OdpPool BY DEF NoOdp, OdpPool
  <2>4. NoMap \in [pool : 0..NumPools, sub : Nat] BY ConstantsAre DEF NoMap, Undef
  <2>5. NoPoolCall \in PoolCall BY <2>1 DEF NoPoolCall, PoolCall, Names
  <2>6. boot \in Boot
    <3>1. 1 \in Nat \ {0} OBVIOUS
    <3> QED BY <1>2, <3>1 DEF Boot
  <2> QED BY <1>1, <2>2, <2>3, <2>4, <2>5, <2>6 DEF PTypeInv
<1>6. OnePoolCall BY <1>4 DEF OnePoolCall, Busy, Creating
<1>7. PCallsInv BY <1>4 DEF PCallsInv, PoolCallOK
<1>8. PoolsInv
  <2>1. 0 <= Cardinality(OdpIdx) BY ConstantsAre, FS_CardinalityType
  <2>2. \A h \in Handles : ~InUse(h) BY <1>4 DEF InUse
  <2>3. \A h \in Handles : h \in free => pool[h] = NoPool BY <1>1
  <2> QED BY <1>4, <2>1, <2>2, <2>3 DEF PoolsInv, PoolOK, Ascends
<1>9. \A h \in Handles, i \in Nat, x \in OdpIdx : ~Owns(h, i, x) BY <1>4 DEF Owns
<1>10. OdpInv BY <1>4, <1>9 DEF OdpInv, OdpOK, NoOdp, Owned
<1>11. MapInv BY <1>4, <1>9 DEF MapInv, MapOK
<1>12. InitOK
  <2>1. Extra = {} BY <1>1 DEF Extra
  <2>2. Ordered = {} BY <1>3 DEF Ordered
  <2>3. Cardinality(Extra) = 0 /\ Cardinality(Ordered) = 0 BY <2>1, <2>2, FS_EmptySet
  <2>4. 0 \in PoolCores /\ Default \in Handles /\ Default # Undef BY ConstantsAre
  <2>5. pcall[0].pc # "scan" /\ pcall[0].h # Default BY <1>4, <2>4
  <2>6. Cardinality(Extra) + (IF pcall[0].pc = "scan" THEN 1 ELSE 0) <= Cardinality(Ordered)
    BY <2>3, <2>5
  <2>7. 1 <= Len(s) + 1
    <3>1. PICK t \in Seq(Startup) : t = s BY PoolAssumption DEF Startup
    <3>2. Len(t) \in Nat OBVIOUS
    <3> QED BY <3>1, <3>2
  <2>8. Default \notin free /\ pool[Default] = NoPool BY <1>1, <2>4
  <2>9. \A k \in 1..boot.next - 1 : ~IsDefault(boot.conf[k]) BY <1>3
  <2> QED BY <1>3, <2>5, <2>6, <2>7, <2>8, <2>9 DEF InitOK
<1>13. BootInv BY <1>3, <1>4, <1>12 DEF BootInv, RunOK, TermOK
<1> QED BY <1>5, <1>6, <1>7, <1>8, <1>10, <1>11, <1>13 DEF PInv

\* Nothing happens to the pools.
LEMMA PStutters ==
  ASSUME PInv, UNCHANGED pvars
  PROVE  PInv'
<1>1. UNCHANGED <<free, pool, odp, odp2em, pcall, boot>> BY DEF pvars
<1>2. PTypeInv' BY <1>1 DEF PInv, PTypeInv
<1>3. OnePoolCall' BY <1>1 DEF PInv, OnePoolCall, Busy
<1>4. PCallsInv' BY <1>1 DEF PInv, PCallsInv, PoolCallOK, MadeAs, Live
<1>5. PoolsInv'
  <2>1. PhaseSeen BY <1>1 DEF PhaseSeen
  <2>2. PoolsSee(Undef) BY <1>1, <2>1 DEF PoolsSee, Quiet
  <2> QED BY <2>2, PoolsKeep, ConstantsAre DEF PoolsInv
<1>6. OwnsSame BY <1>1, SubsSame
<1>7. PhaseSeen BY <1>1 DEF PhaseSeen
<1>8. OdpInv' BY <1>1, <1>6, <1>7, OdpKeeps
<1>9. MapInv'
  <2>1. \A x \in OdpIdx : MapSeen(x) BY <1>1 DEF MapSeen, At
  <2> QED BY <1>6, <2>1, MapKeeps DEF MapInv, OwnsSame
<1>10. BootInv'
  <2>1. BootInv BY DEF PInv
  <2>2. InitOK' BY <1>1, <2>1 DEF BootInv, InitOK, Extra, Ordered
  <2>3. RunOK' BY <1>1, <2>1 DEF BootInv, RunOK, Quiet
  <2>4. TermOK' BY <1>1, <2>1 DEF BootInv, TermOK, Quiet, InUse, Live
  <2> QED BY <1>1, <2>1, <2>2, <2>3, <2>4 DEF BootInv
<1> QED BY <1>2, <1>3, <1>4, <1>5, <1>8, <1>9, <1>10 DEF PInv

\* Every step keeps the invariant of the pools.
LEMMA PStepIs ==
  ASSUME PInv, Exclusive, OneDefault, [PoolNext]_pvars
  PROVE  PInv'
<1>1. CASE BootStartup BY <1>1, BootStartupStep
<1>2. CASE BootDefault BY <1>2, BootDefaultStep
<1>3. CASE BootEnd BY <1>3, BootEndStep
<1>4. CASE TermBegin BY <1>4, TermBeginStep
<1>5. CASE TermNext BY <1>5, TermNextStep
<1>6. CASE TermEnd BY <1>6, TermEndStep
<1>7. ASSUME NEW c \in PoolCores, Scan(c) PROVE PInv' BY <1>7, ScanStep
<1>8. ASSUME NEW c \in PoolCores, CreateSub(c) PROVE PInv' BY <1>8, CreateSubStep
<1>9. ASSUME NEW c \in PoolCores, CreateSubFail(c) PROVE PInv' BY <1>9, FailStep
<1>10. ASSUME NEW c \in PoolCores, CreateMap(c) PROVE PInv' BY <1>10, MapStep
<1>11. ASSUME NEW c \in PoolCores, Destroy(c) PROVE PInv' BY <1>11, DestroyStep
<1>12. ASSUME NEW c \in PoolCores, Clear(c) PROVE PInv' BY <1>12, ClearStep
<1>13. ASSUME NEW c \in PoolCores, DeleteEnd(c) PROVE PInv' BY <1>13, DeleteEndStep
<1>14. ASSUME NEW c \in PoolCores, NEW h \in Handles \cup {Undef}, NEW cfg \in Cfgs, AppCreate(c, h, cfg)
       PROVE  PInv'
  BY <1>14, AppCreateStep
<1>15. ASSUME NEW c \in PoolCores, NEW h \in Handles, AppDelete(c, h) PROVE PInv'
  BY <1>15, AppDeleteStep
<1>16. ASSUME NEW h \in Handles, NEW size \in Sizes, AppAlloc(h, size) PROVE PInv' BY <1>16, AllocStep
<1>17. ASSUME NEW x \in OdpIdx, AppFree(x) PROVE PInv' BY <1>17, FreeStep
<1>18. CASE UNCHANGED pvars BY <1>18, PStutters
<1> QED
  BY <1>1, <1>2, <1>3, <1>4, <1>5, <1>6, <1>7, <1>8, <1>9, <1>10, <1>11, <1>12, <1>13, <1>14, <1>15, <1>16,
     <1>17, <1>18 DEF PoolNext

\* The mapping is that of the pools that exist.
LEMMA MappingIs ==
  ASSUME PInv
  PROVE  MappingMatchesPools
<1>1. PTypeInv BY DEF PInv
<1>2. ASSUME NEW x \in OdpIdx, ~Unmapped(x)
      PROVE  LET owners == {p \in Handles \X (1 .. Cardinality(OdpIdx)) :
                     p[2] \in DOMAIN pool[p[1]].subs /\ pool[p[1]].subs[p[2]].idx = x}
             IN IF odp2em[x] = NoMap THEN owners = {} ELSE owners = {<<odp2em[x].pool, odp2em[x].sub>>}
  <2>1. PICK owners : owners = {p \in Handles \X (1 .. Cardinality(OdpIdx)) : Owns(p[1], p[2], x)} OBVIOUS
  <2>2. ~At("map", x) /\ ~At("clear", x) BY <1>2 DEF Unmapped, At
  <2>3. \A h \in Handles, i \in Nat : Owns(h, i, x) => odp2em[x] = [pool |-> h, sub |-> i]
    BY <2>2 DEF PInv, MapInv, MapOK
  <2>4. Cardinality(OdpIdx) \in Nat BY ConstantsAre, FS_CardinalityType
  <2>5. \A p \in owners : p[1] \in Handles /\ p[2] \in Nat /\ Owns(p[1], p[2], x) /\ p = <<p[1], p[2]>>
    BY <2>1, <2>4
  <2>6. ASSUME odp2em[x] = NoMap PROVE owners = {}
    <3>1. ASSUME NEW p \in owners PROVE FALSE
      <4>1. odp2em[x] = [pool |-> p[1], sub |-> p[2]] /\ p[1] \in Handles BY <2>3, <2>5
      <4>2. odp2em[x].pool = p[1] /\ odp2em[x].pool = Undef BY <2>6, <4>1 DEF NoMap
      <4> QED BY <4>1, <4>2, ConstantsAre
    <3> QED BY <3>1
  <2>7. ASSUME odp2em[x] # NoMap PROVE owners = {<<odp2em[x].pool, odp2em[x].sub>>}
    <3>1. Owned(x) BY <2>2, <2>7 DEF PInv, MapInv, MapOK
    <3>2. PICK h \in Handles, i \in Nat : Owns(h, i, x) BY <3>1 DEF Owned
    <3>3. odp2em[x].pool = h /\ odp2em[x].sub = i
      <4>1. odp2em[x] = [pool |-> h, sub |-> i] BY <2>3, <3>2
      <4> QED BY <4>1
    <3>4. PoolOK(h) /\ DOMAIN pool[h].subs = 1..Len(pool[h].subs) /\ Len(pool[h].subs) \in Nat
      BY <1>1, PTypes DEF PInv, PoolsInv
    <3>5. i \in 1..Cardinality(OdpIdx) BY <2>4, <3>2, <3>4 DEF PoolOK, Owns
    <3>6. <<h, i>> \in owners BY <2>1, <3>2, <3>5
    <3>7. \A p \in owners : p[1] = h /\ p[2] = i BY <2>5, <3>2 DEF PInv, OdpInv
    <3>8. \A p \in owners : p = <<h, i>> BY <2>5, <3>7
    <3> QED BY <3>3, <3>6, <3>8
  <2> QED BY <2>1, <2>6, <2>7 DEF Owns
<1> QED BY <1>2 DEF MappingMatchesPools

\* Every ODP pool that exists has one pool.
LEMMA NoneLost ==
  ASSUME PInv
  PROVE  NoOdpPoolLost
<1>1. ASSUME NEW x \in OdpIdx, odp[x].live
      PROVE  Cardinality({h \in Handles \ free :
                   \E i \in DOMAIN pool[h].subs : pool[h].subs[i].idx = x}) = 1
  <2>1. Owned(x) BY <1>1 DEF PInv, OdpInv, OdpOK
  <2>2. PICK h \in Handles, i \in Nat : Owns(h, i, x) BY <2>1 DEF Owned
  <2>3. h \notin free
    <3>1. h \in free => pool[h].subs = <<>> BY DEF PInv, PoolsInv, PoolOK, NoPool
    <3> QED BY <2>2, <3>1 DEF Owns
  <2>4. ASSUME NEW g \in Handles, NEW j \in DOMAIN pool[g].subs, pool[g].subs[j].idx = x PROVE g = h
    <3>1. j \in Nat BY <2>4, PTypes DEF PInv
    <3>2. Owns(g, j, x) BY <2>4 DEF Owns
    <3> QED BY <2>2, <3>1, <3>2 DEF PInv, OdpInv
  <2>5. {g \in Handles \ free : \E j \in DOMAIN pool[g].subs : pool[g].subs[j].idx = x} = {h}
    BY <2>2, <2>3, <2>4 DEF Owns
  <2>6. Cardinality({h}) = 1 BY FS_Singleton
  <2> QED BY <2>5, <2>6
<1> QED BY <1>1 DEF NoOdpPoolLost

\* What the invariant says of the pools.
LEMMA PoolInvIs ==
  ASSUME PInv
  PROVE  PoolInv
<1>1. PTypeInv BY DEF PInv
<1>2. PoolTypeOK
  <2>1. \A x \in OdpIdx : odp[x].used \in 0..odp[x].num BY <1>1, PTypes DEF PInv, OdpInv, OdpOK
  <2> QED BY <1>1, <2>1, PTypes DEF PoolTypeOK, PTypeInv
<1>3. EventsFit BY DEF PInv, OdpInv, OdpOK, EventsFit
<1>4. DefaultIsDefault BY DEF PInv, BootInv, RunOK, PoolsInv, PoolOK, DefaultIsDefault
<1>5. TermLeavesOnlyBusy
  <2>1. ASSUME boot.phase = "done", NEW h \in Handles \ free PROVE InUse(h)
    <3>1. pcall[0].pc = "none" BY <2>1 DEF PInv, BootInv
    <3>2. Quiet(h) BY <2>1, <3>1, NoneQuiet
    <3>3. TermOK BY DEF PInv, BootInv
    <3>4. boot.next > NumPools BY <2>1, <3>3 DEF TermOK
    <3>5. h < boot.next BY <1>1, <3>4, ConstantsAre, PTypes
    <3> QED BY <2>1, <3>2, <3>3, <3>5 DEF TermOK
  <2> QED BY <2>1 DEF TermLeavesOnlyBusy
<1> QED BY <1>2, <1>3, <1>4, <1>5, MappingIs, NoneLost DEF PoolInv

\* The pool table, the mapping and the ODP pools agree at all times: with no
\* pool made while another is deleted or taken back, and one startup pool at
\* most that is the default pool, for any number of cores, pools and subpools.
THEOREM PoolCorrect ==
  ASSUME Exclusive, OneDefault
  PROVE  PoolSpec => []PoolInv
<1>1. PoolInit => PInv BY PInitIs
<1>2. PInv /\ [PoolNext]_pvars => PInv' BY PStepIs
<1>3. PInv => PoolInv BY PoolInvIs
<1> QED BY <1>1, <1>2, <1>3, PTL DEF PoolSpec


-----------------------------------------------------------------------------
(* Queues: the inductive invariant *)

Queues == StaticQ \cup DynQ
QTypes == {"undef", "sched", "unsched", "local", "output", "pktin", "aggr"}
States == {"INVALID", "INIT", "BIND", "READY", "UNSCHEDULED"}
Stages == {"none", "setup", "context", "index", "uncount", "odp", "aggr", "list", "free", "count",
           "unlist", "drain", "destroy", "freeaggr", "kids"}
Elem   == [type : QTypes, st : States, aggr : Seq(AggrQ), parent : Elems \cup {NoQueue},
           idx : 0..MaxOutput - 1, odp : BOOLEAN]
Call   == [stage : Stages, e : Elems \cup {NoQueue}, type : QTypes \cup {"none"}, n : 0..MaxAggr,
           kids : Seq(AggrQ), st : States]
OdpSt  == {"none", "empty", "events"}

QTypeInv ==
  /\ qpool \in SUBSET Elems /\ qelem \in [Elems -> Elem] /\ odpQueue \in [Elems -> OdpSt]
  /\ qcount \in Int /\ outCount \in Int /\ idxFree \in [0..MaxOutput - 1 -> BOOLEAN]
  /\ listed \in SUBSET Elems /\ numQueues \in Int /\ node \in [Elems -> {"zero", "in", "self"}]
  /\ nullNode \in BOOLEAN /\ qcall \in [QCores -> Call] /\ half \in SUBSET Elems

\* No two calls are on the same queue.
OneCall == \A c, d \in QCores : qcall[c].e = qcall[d].e /\ qcall[c].e # NoQueue => c = d

\* How far the call on a queue has come.
StageOf(e) ==
  IF QInCall(e) THEN qcall[CHOOSE c \in QCores : qcall[c].e = e].stage ELSE "none"

\* The element of a queue or of an aggregator: what it keeps of its last use,
\* and what the stage of the call on it tells of it.
NoOdpAt == {"setup", "context", "index", "uncount", "odp", "free", "freeaggr"}
InPoolOK(e) ==
  e \in qpool => /\ StageOf(e) = "none" /\ qelem[e].st = "INVALID" /\ qelem[e].aggr = <<>>
                 /\ qelem[e].parent = NoQueue /\ odpQueue[e] = "none" /\ e \notin half /\ e \notin listed
AggrOK(e) ==
  e \in AggrQ => /\ StageOf(e) = "none" /\ qelem[e].type \in {"undef", "aggr"} /\ qelem[e].aggr = <<>>
                 /\ odpQueue[e] = "none" /\ e \notin half /\ e \notin listed
                 /\ qelem[e].parent = NoQueue => qelem[e].st = "INVALID"
QueueOK(e) ==
  LET s == StageOf(e)  t == qelem[e].type IN
  /\ qelem[e].parent = NoQueue /\ t # "aggr" /\ Len(qelem[e].aggr) <= MaxAggr
  /\ e \in Used =>
       /\ qelem[e].aggr # <<>> =>
            t \in {"sched", "unsched"} /\ s \in {"none", "list", "unlist", "destroy", "freeaggr", "kids"}
       /\ s # "setup" => t # "undef"
       /\ s \in NoOdpAt => odpQueue[e] = "none"
       /\ s \notin NoOdpAt /\ t \in {"sched", "unsched", "output"} => odpQueue[e] # "none"
       /\ s = "destroy" /\ t = "output" => odpQueue[e] = "empty"
       /\ s = "context" => t = "pktin"
       /\ s \in {"index", "uncount", "drain"} => t = "output"
       /\ s = "odp" => t \in {"sched", "unsched", "output"}
       /\ s \in {"aggr", "freeaggr", "kids"} => t \in {"sched", "unsched"}
       /\ s \in {"list", "unlist"} => t = "sched"
       /\ e \in half => t # "output" /\ s \in {"none", "kids"}
       /\ e \in listed <=> t = "sched" /\ e \notin half /\ s \in {"none", "unlist", "kids"}
       /\ e \in listed => node[e] = "in"
ElemOK(e) == InPoolOK(e) /\ AggrOK(e) /\ (e \in Queues => QueueOK(e))
ElemsInv  == \A e \in Elems : ElemOK(e)

\* A call and its element.
CallOK(c) ==
  LET r == qcall[c]  s == qcall[c].stage IN
  /\ s \in {"none", "count"} <=> r.e = NoQueue
  /\ r.e # NoQueue => r.e \in Used /\ r.e \in Queues
  /\ s \notin {"none", "count", "setup", "kids"} => r.type = qelem[r.e].type
  /\ s = "setup" => AggrAllowed(r.type, r.n) /\ r.type \in {"sched", "unsched", "local", "output", "pktin"}
  /\ s \in {"index", "odp", "aggr"} /\ r.n > 0 => r.type \in {"sched", "unsched"}
  /\ s \in {"setup", "index", "odp"} => r.kids = <<>>
  /\ s = "aggr" => Len(r.kids) <= r.n
  /\ s \in {"unlist", "drain", "destroy"} => r.n = Len(qelem[r.e].aggr)
  /\ s = "kids" => r.st = qelem[r.e].st
CallsInv == \A c \in QCores : CallOK(c)

\* Aggregators that a call has taken and not yet given to its queue.
Pending(c) == IF qcall[c].stage = "aggr" THEN qcall[c].kids ELSE <<>>
Distinct(s) == \A i, j \in DOMAIN s : s[i] = s[j] => i = j
Sends(e)   == qelem[e].st \in {"READY", "UNSCHEDULED"}

\* A queue and its aggregators know each other; an aggregator without a queue
\* is in the pool or in the hands of one call.
KidsOK(p) ==
  /\ Distinct(qelem[p].aggr)
  /\ \A k \in Kids(p) : k \in AggrQ /\ k \in Used /\ qelem[k].parent = p
  /\ p \in Used /\ StageOf(p) # "kids" => \A k \in Kids(p) : Sends(k) <=> Sends(p)
PendingOK(c) ==
  /\ Distinct(Pending(c))
  /\ \A k \in Set(Pending(c)) : k \in AggrQ /\ k \in Used /\ qelem[k].parent = NoQueue
  /\ \A d \in QCores : d # c => Set(Pending(c)) \cap Set(Pending(d)) = {}
AggrIn(k) ==
  /\ qelem[k].parent # NoQueue => qelem[k].parent \in Queues /\ qelem[k].parent \in Used
                                  /\ k \in Kids(qelem[k].parent)
  /\ k \in Used /\ qelem[k].parent = NoQueue => \E c \in QCores : k \in Set(Pending(c))
TreeInv ==
  /\ \A p \in Queues : KidsOK(p)
  /\ \A c \in QCores : PendingOK(c)
  /\ \A k \in AggrQ : AggrIn(k)

\* The elements that are counted are those out of the pool that have been set
\* up; one that is back in the pool is counted until its call ends.
Counted  == {e \in Used : StageOf(e) # "setup"}
Uncounts == {c \in QCores : qcall[c].stage = "count"}
CountInv == qcount = Cardinality(Counted) + Cardinality(Uncounts)

ListInv == numQueues = Cardinality(listed) /\ ~nullNode

\* The output queues that are counted have an index, wait for one, or were too
\* many; there are enough indexes for those that wait.
OutAt(e) ==
  IF e \in Used /\ qelem[e].type = "output"
  THEN CASE StageOf(e) \in {"none", "odp", "drain"} -> "holds"
         [] StageOf(e) = "index"   -> "waits"
         [] StageOf(e) = "uncount" -> "over"
         [] OTHER -> "no"
  ELSE "no"
Holding == {e \in Elems : OutAt(e) = "holds"}
OutNow  == {e \in Elems : OutAt(e) \in {"holds", "waits"}}
OutAll  == {e \in Elems : OutAt(e) \in {"holds", "waits", "over"}}
OutInv ==
  /\ \A e, f \in Holding : qelem[e].idx = qelem[f].idx => e = f
  /\ \A i \in 0..MaxOutput - 1 : idxFree[i] <=> \A e \in Holding : qelem[e].idx # i
  /\ outCount = Cardinality(OutAll)
  /\ Cardinality(OutNow) <= MaxOutput

QInv ==
  /\ QTypeInv /\ OneCall /\ ElemsInv /\ CallsInv /\ TreeInv /\ CountInv /\ ListInv /\ OutInv
  /\ PrioMapMonotone

-----------------------------------------------------------------------------
(* Sets and sequences *)

\* The constants, as the proofs use them.
LEMMA SetsAre ==
  /\ Queues \in SUBSET Elems /\ AggrQ \in SUBSET Elems /\ Queues \cap AggrQ = {}
  /\ Elems = Queues \cup AggrQ /\ NoQueue \notin Elems /\ IsFiniteSet(Elems) /\ IsFiniteSet(QCores)
  /\ MaxOutput \in Nat /\ MaxOutput # 0 /\ MaxAggr \in Nat /\ Elems \in SUBSET Nat
<1>1. IsFiniteSet(Elems) BY QueueAssumption DEF Elems
<1>2. Cardinality(Elems) \in Nat BY <1>1, FS_CardinalityType
<1>3. Elems \in SUBSET Nat BY <1>2, QueueAssumption
<1> QED BY <1>1, <1>3, QueueAssumption DEF Queues, Elems

\* Two sets that differ in one element at most.
Shift(S, T, e) ==
  /\ Cardinality(S) \in Nat /\ Cardinality(T) \in Nat
  /\ Cardinality(T) = Cardinality(S) + (IF e \in T THEN 1 ELSE 0) - (IF e \in S THEN 1 ELSE 0)

\* The size of a set that gains or loses one member.
LEMMA ShiftIs ==
  ASSUME NEW E, IsFiniteSet(E), NEW S \in SUBSET E, NEW T \in SUBSET E, NEW e,
         \A f \in E : f # e => (f \in S <=> f \in T)
  PROVE  Shift(S, T, e)
<1>1. IsFiniteSet(S) /\ IsFiniteSet(T) BY FS_Subset
<1>2. S \ {e} = T \ {e} OBVIOUS
<1>3. /\ Cardinality(S \ {e}) = IF e \in S THEN Cardinality(S) - 1 ELSE Cardinality(S)
      /\ Cardinality(T \ {e}) = IF e \in T THEN Cardinality(T) - 1 ELSE Cardinality(T)
  BY <1>1, FS_RemoveElement
<1>4. Cardinality(S) \in Nat /\ Cardinality(T) \in Nat BY <1>1, FS_CardinalityType
<1> QED BY <1>2, <1>3, <1>4 DEF Shift

\* The elements of a sequence without repetition are as many as it is long.
LEMMA DistinctSize ==
  ASSUME NEW S, NEW s \in Seq(S), Distinct(s)
  PROVE  /\ IsFiniteSet(Set(s)) /\ Cardinality(Set(s)) = Len(s) /\ Len(s) \in Nat
         /\ DOMAIN s = 1..Len(s) /\ Set(s) \subseteq S /\ \A i \in 1..Len(s) : s[i] \in S
<1>1. Len(s) \in Nat /\ DOMAIN s = 1..Len(s) /\ s \in [1..Len(s) -> S] BY LenProperties
<1>2. IsFiniteSet(1..Len(s)) /\ Cardinality(1..Len(s)) = Len(s) BY <1>1, FS_Interval
<1>3. s \in Injection(1..Len(s), Set(s)) BY <1>1 DEF Injection, IsInjective, Distinct, Set
<1>4. s \in Surjection(1..Len(s), Set(s)) BY <1>1 DEF Surjection, Set
<1>5. ExistsBijection(1..Len(s), Set(s)) BY <1>3, <1>4 DEF ExistsBijection, Bijection
<1>6. IsFiniteSet(Set(s)) /\ Cardinality(Set(s)) = Cardinality(1..Len(s))
  BY <1>2, <1>5, FS_Bijection
<1>7. Set(s) \subseteq S BY <1>1 DEF Set
<1> QED BY <1>1, <1>2, <1>6, <1>7

\* An empty sequence.
LEMMA NoneIs ==
  ASSUME NEW S, NEW s \in Seq(S)
  PROVE  s = <<>> <=> Len(s) = 0
BY EmptySeq

-----------------------------------------------------------------------------
(* The stage of a queue *)

\* The stage of an element is that of the call that works on it.
LEMMA StageAt ==
  ASSUME OneCall, NEW c \in QCores, qcall[c].e # NoQueue
  PROVE  QInCall(qcall[c].e) /\ StageOf(qcall[c].e) = qcall[c].stage
<1>1. QInCall(qcall[c].e) BY DEF QInCall
<1>2. PICK d \in QCores : d = CHOOSE x \in QCores : qcall[x].e = qcall[c].e OBVIOUS
<1>3. qcall[d].e = qcall[c].e BY <1>2
<1>4. d = c BY <1>3 DEF OneCall
<1> QED BY <1>1, <1>2, <1>4 DEF StageOf

\* And there is none without such a call.
LEMMA StageNone ==
  ASSUME OneCall, CallsInv, NEW e \in Elems
  PROVE  /\ StageOf(e) = "none" <=> ~QInCall(e)
         /\ StageOf(e) # "none" => \E c \in QCores : qcall[c].e = e /\ qcall[c].stage = StageOf(e)
<1>1. e # NoQueue BY SetsAre
<1>2. CASE ~QInCall(e) BY <1>2 DEF StageOf
<1>3. CASE QInCall(e)
  <2>1. PICK c \in QCores : qcall[c].e = e BY <1>3 DEF QInCall
  <2>2. StageOf(e) = qcall[c].stage BY <1>1, <2>1, StageAt
  <2>3. qcall[c].stage # "none" BY <1>1, <2>1 DEF CallsInv, CallOK
  <2> QED BY <1>3, <2>1, <2>2, <2>3
<1> QED BY <1>2, <1>3

\* What the call of core c becomes decides the stage of its queue.
LEMMA StageAfter ==
  ASSUME QTypeInv, OneCall, NEW c \in QCores, NEW r \in Call, qcall' = [qcall EXCEPT ![c] = r],
         r.e = NoQueue \/ \A d \in QCores : d # c => qcall[d].e # r.e
  PROVE  /\ OneCall'
         /\ \A f \in Elems : StageOf(f)' = IF f = r.e THEN r.stage
                                           ELSE IF f = qcall[c].e THEN "none" ELSE StageOf(f)
<1>1. qcall \in [QCores -> Call] BY DEF QTypeInv
<1>2. qcall'[c] = r /\ \A d \in QCores : d # c => qcall'[d] = qcall[d] BY <1>1
<1>3. OneCall' BY <1>2 DEF OneCall
<1>4. ASSUME NEW f \in Elems
      PROVE  StageOf(f)' = IF f = r.e THEN r.stage
                           ELSE IF f = qcall[c].e THEN "none" ELSE StageOf(f)
  <2>1. f # NoQueue BY SetsAre
  <2>2. CASE f = r.e
    <3>1. QInCall(f)' BY <1>2, <2>2 DEF QInCall
    <3>2. PICK d \in QCores : d = CHOOSE x \in QCores : qcall'[x].e = f OBVIOUS
    <3>3. qcall'[d].e = f BY <1>2, <2>2, <3>2
    <3>4. d = c BY <1>2, <1>3, <2>1, <2>2, <3>3 DEF OneCall
    <3>5. StageOf(f)' = qcall'[d].stage BY <3>1, <3>2 DEF StageOf
    <3> QED BY <1>2, <2>2, <3>4, <3>5
  <2>3. CASE f # r.e /\ f = qcall[c].e
    <3>1. \A d \in QCores : qcall'[d].e # f BY <1>2, <2>1, <2>3 DEF OneCall
    <3>2. ~QInCall(f)' BY <3>1 DEF QInCall
    <3> QED BY <2>3, <3>2 DEF StageOf
  <2>4. CASE f # r.e /\ f # qcall[c].e
    <3>1. \A d \in QCores : qcall'[d].e = f <=> qcall[d].e = f BY <1>2, <2>4
    <3>2. QInCall(f)' <=> QInCall(f) BY <3>1 DEF QInCall
    <3>3. CASE ~QInCall(f) BY <2>4, <3>2, <3>3 DEF StageOf
    <3>4. CASE QInCall(f)
      <4>1. PICK d \in QCores : qcall[d].e = f BY <3>4 DEF QInCall
      <4>2. d # c /\ qcall'[d].e = f /\ qcall'[d] = qcall[d] BY <1>2, <2>4, <4>1
      <4>3. StageOf(f) = qcall[d].stage BY <2>1, <4>1, StageAt
      <4>4. PICK x \in QCores : x = CHOOSE y \in QCores : qcall'[y].e = f OBVIOUS
      <4>5. qcall'[x].e = f BY <4>2, <4>4
      <4>6. x = d BY <1>3, <2>1, <4>2, <4>5 DEF OneCall
      <4> QED BY <2>4, <3>2, <3>4, <4>2, <4>3, <4>4, <4>6 DEF StageOf
    <3> QED BY <3>3, <3>4
  <2> QED BY <2>2, <2>3, <2>4
<1> QED BY <1>3, <1>4

-----------------------------------------------------------------------------
(* Steps that change one queue *)

\* What a step leaves alone when it changes the queue e: the other elements, and
\* the calls D, which are on other queues or do not see the change.
Apart(e, D) ==
  /\ \A f \in Elems : f # e =>
       /\ qelem'[f] = qelem[f] /\ odpQueue'[f] = odpQueue[f] /\ node'[f] = node[f]
       /\ StageOf(f)' = StageOf(f)
       /\ f \in qpool' <=> f \in qpool
       /\ f \in half' <=> f \in half
       /\ f \in listed' <=> f \in listed
  /\ \A d \in D : /\ qcall'[d] = qcall[d]
                  /\ qcall[d].e = e => qelem'[e] = qelem[e] /\ (e \in qpool' <=> e \in qpool)

\* The call of core c is the only one to change, and becomes r; e is the queue
\* it is on, was on, or none.
Moves(c, e, r) ==
  /\ qcall' = [qcall EXCEPT ![c] = r]
  /\ qcall[c].e = e \/ (qcall[c].e = NoQueue /\ StageOf(e) = "none")
  /\ r.e = e \/ r.e = NoQueue
  /\ \A f \in Elems : f # e =>
       /\ qelem'[f] = qelem[f] /\ odpQueue'[f] = odpQueue[f] /\ node'[f] = node[f]
       /\ f \in qpool' <=> f \in qpool
       /\ f \in half' <=> f \in half
       /\ f \in listed' <=> f \in listed

\* The call of core c moves, and the others keep apart.
LEMMA ApartIs ==
  ASSUME QInv, NEW c \in QCores, NEW e \in Queues, NEW r \in Call, Moves(c, e, r)
  PROVE  /\ OneCall' /\ Apart(e, QCores \ {c})
         /\ r.e = e => StageOf(e)' = r.stage
         /\ r.e # e => StageOf(e)' = "none"
         /\ qcall'[c] = r
<1>1. e \in Elems /\ e # NoQueue /\ NoQueue \notin Elems BY SetsAre
<1>2. QTypeInv /\ OneCall /\ CallsInv BY DEF QInv
<1>3. Moves(c, e, r) OBVIOUS
<1> USE DEF Moves
<1>4. \A d \in QCores : d # c => qcall[d].e # e
  <2>1. CASE qcall[c].e = e BY <1>1, <1>2, <2>1 DEF OneCall
  <2>2. CASE StageOf(e) = "none"
    <3>1. ~QInCall(e) BY <1>1, <1>2, <2>2, StageNone
    <3> QED BY <3>1 DEF QInCall
  <2> QED BY <2>1, <2>2
<1>5. r.e = NoQueue \/ \A d \in QCores : d # c => qcall[d].e # r.e BY <1>4
<1>6. QTypeInv /\ OneCall BY <1>2
<1>7. /\ OneCall'
      /\ \A f \in Elems : StageOf(f)' = IF f = r.e THEN r.stage
                                        ELSE IF f = qcall[c].e THEN "none" ELSE StageOf(f)
  <2> HIDE DEF QInv
  <2> QED BY <1>5, <1>6, StageAfter
<1>8. qcall \in [QCores -> Call] BY <1>2 DEF QTypeInv
<1>9. qcall'[c] = r /\ \A d \in QCores : d # c => qcall'[d] = qcall[d] BY <1>8
<1>10. StageOf(e)' = IF r.e = e THEN r.stage ELSE "none" BY <1>1, <1>7
<1>11. \A f \in Elems : f # e => StageOf(f)' = StageOf(f) BY <1>1, <1>7
<1>12. Apart(e, QCores \ {c}) BY <1>4, <1>9, <1>11 DEF Apart
<1> QED BY <1>7, <1>9, <1>10, <1>12

\* They stay apart when one call goes on with its element.
LEMMA ApartKeeps ==
  ASSUME QInv, NEW e, NEW D \in SUBSET QCores, Apart(e, D)
  PROVE  /\ \A f \in Elems : f # e =>
              ElemOK(f)' /\ OutAt(f)' = OutAt(f) /\ (f \in Counted' <=> f \in Counted)
         /\ \A d \in D : CallOK(d)'
<1>1. ASSUME NEW f \in Elems, f # e
      PROVE  ElemOK(f)' /\ OutAt(f)' = OutAt(f) /\ (f \in Counted' <=> f \in Counted)
  <2>1. /\ qelem'[f] = qelem[f] /\ odpQueue'[f] = odpQueue[f] /\ node'[f] = node[f]
        /\ StageOf(f)' = StageOf(f)
        /\ f \in qpool' <=> f \in qpool
        /\ f \in half' <=> f \in half
        /\ f \in listed' <=> f \in listed
    BY <1>1 DEF Apart
  <2>2. f \in Used' <=> f \in Used BY <2>1 DEF Used
  <2>3. InPoolOK(f) /\ AggrOK(f) /\ (f \in Queues => QueueOK(f)) BY DEF QInv, ElemsInv, ElemOK
  <2>4. InPoolOK(f)' BY <2>1, <2>3 DEF InPoolOK
  <2>5. AggrOK(f)' BY <2>1, <2>3 DEF AggrOK
  <2>6. f \in Queues => QueueOK(f)' BY <2>1, <2>2, <2>3 DEF QueueOK
  <2>7. OutAt(f)' = OutAt(f) BY <2>1, <2>2 DEF OutAt
  <2>8. f \in Counted' <=> f \in Counted BY <2>1, <2>2 DEF Counted
  <2> QED BY <2>4, <2>5, <2>6, <2>7, <2>8 DEF ElemOK
<1>2. ASSUME NEW d \in D PROVE CallOK(d)'
  <2>1. qcall'[d] = qcall[d] /\ (qcall[d].e = e => qelem'[e] = qelem[e] /\ (e \in qpool' <=> e \in qpool))
    BY DEF Apart
  <2>2. CallOK(d) BY DEF QInv, CallsInv
  <2>3. qcall[d].e \in Elems \cup {NoQueue} BY DEF QInv, QTypeInv, Call
  <2>4. qcall[d].e # NoQueue =>
          qelem'[qcall[d].e] = qelem[qcall[d].e] /\ (qcall[d].e \in Used' <=> qcall[d].e \in Used)
    BY <2>1, <2>3 DEF Apart, Used
  <2>5. qcall[d].stage \notin {"none", "count"} => qcall[d].e # NoQueue BY <2>2 DEF CallOK
  <2> QED BY <2>1, <2>2, <2>4, <2>5 DEF CallOK
<1> QED BY <1>1, <1>2

\* The aggregators of the queues stay as they are.
LEMMA TreeSame ==
  ASSUME QInv, NEW e, e \notin AggrQ, NEW D, Apart(e, D), \A d \in QCores : Pending(d)' = Pending(d),
         qelem'[e].aggr = qelem[e].aggr,
         e \in Queues /\ qelem[e].aggr # <<>> =>
           /\ e \notin qpool'
           /\ StageOf(e)' = "kids" \/ ((Sends(e)' <=> Sends(e)) /\ StageOf(e) # "kids")
  PROVE  TreeInv'
<1>1. e \notin AggrQ /\ Queues \subseteq Elems /\ AggrQ \subseteq Elems BY SetsAre
<1>2. \A f \in Elems : f # e => /\ qelem'[f] = qelem[f] /\ (f \in qpool' <=> f \in qpool)
                                /\ StageOf(f)' = StageOf(f)
  BY DEF Apart
<1>3. /\ \A p \in Queues : KidsOK(p)
      /\ \A d \in QCores : PendingOK(d)
      /\ \A k \in AggrQ : AggrIn(k)
  BY DEF QInv, TreeInv
<1>4. \A k \in AggrQ : qelem'[k] = qelem[k] /\ (k \in Used' <=> k \in Used)
  BY <1>1, <1>2 DEF Used
<1>5. \A p \in Queues : qelem'[p].aggr = qelem[p].aggr /\ Kids(p)' = Kids(p)
  BY <1>1, <1>2 DEF Kids, Set
<1>6. ASSUME NEW p \in Queues PROVE KidsOK(p)'
  <2>1. KidsOK(p) BY <1>3
  <2>2. Distinct(qelem'[p].aggr) BY <1>5, <2>1 DEF KidsOK
  <2>3. \A k \in Kids(p)' : k \in AggrQ /\ k \in Used' /\ qelem'[k].parent = p
    BY <1>4, <1>5, <2>1 DEF KidsOK
  <2>4. ASSUME p \in Used', StageOf(p)' # "kids", NEW k \in Kids(p)' PROVE Sends(k)' <=> Sends(p)'
    <3>1. k \in Kids(p) /\ qelem'[k] = qelem[k] BY <1>4, <1>5, <2>3
    <3>2. qelem[p].aggr # <<>> BY <3>1 DEF Kids, Set
    <3>3. CASE p # e
      <4>1. p \in Used /\ StageOf(p) # "kids" /\ qelem'[p] = qelem[p]
        BY <1>1, <1>2, <2>4, <3>3 DEF Used
      <4> QED BY <2>1, <3>1, <4>1 DEF KidsOK, Sends
    <3>4. CASE p = e
      <4>1. e \in Used
        <5>1. e \in qpool => qelem[e].aggr = <<>>
          BY <1>1, <3>4 DEF QInv, ElemsInv, ElemOK, InPoolOK
        <5> QED BY <1>1, <3>2, <3>4, <5>1 DEF Used
      <4>2. (Sends(e)' <=> Sends(e)) /\ StageOf(e) # "kids" BY <2>4, <3>2, <3>4
      <4> QED BY <2>1, <3>1, <3>4, <4>1, <4>2 DEF KidsOK, Sends
    <3> QED BY <3>3, <3>4
  <2> QED BY <2>2, <2>3, <2>4 DEF KidsOK
<1>7. ASSUME NEW d \in QCores PROVE PendingOK(d)'
  <2>1. PendingOK(d) BY <1>3
  <2>2. \A x \in QCores : Set(Pending(x))' = Set(Pending(x)) BY DEF Set
  <2>3. Distinct(Pending(d))' BY <2>1 DEF PendingOK, Distinct
  <2> QED BY <1>4, <2>1, <2>2, <2>3 DEF PendingOK
<1>8. ASSUME NEW k \in AggrQ PROVE AggrIn(k)'
  <2>1. AggrIn(k) /\ qelem'[k] = qelem[k] /\ (k \in Used' <=> k \in Used) BY <1>3, <1>4
  <2>2. PICK p : p = qelem[k].parent OBVIOUS
  <2>3. ASSUME p # NoQueue
        PROVE  p \in Queues /\ p \in Used' /\ k \in Set(qelem'[p].aggr)
    <3>1. p \in Queues /\ p \in Used /\ k \in Set(qelem[p].aggr) BY <2>1, <2>2, <2>3 DEF AggrIn, Kids
    <3>2. qelem'[p].aggr = qelem[p].aggr BY <1>5, <3>1
    <3>3. k \in Set(qelem'[p].aggr) BY <3>1, <3>2
    <3>4. qelem[p].aggr # <<>> BY <3>1 DEF Set
    <3>5. p \in Used' BY <1>1, <1>2, <3>1, <3>4 DEF Used
    <3> QED BY <3>1, <3>3, <3>5
  <2>4. ASSUME k \in Used', p = NoQueue
        PROVE  \E d \in QCores : k \in Set(Pending(d))'
    <3>1. PICK d \in QCores : k \in Set(Pending(d)) BY <2>1, <2>2, <2>4 DEF AggrIn
    <3> QED BY <3>1 DEF Set
  <2>5. qelem'[k].parent = p BY <2>1, <2>2
  <2> QED BY <2>3, <2>4, <2>5 DEF AggrIn, Kids
<1> QED BY <1>6, <1>7, <1>8 DEF TreeInv

\* The count follows from what happens to the one queue and the one call.
LEMMA CountMoves ==
  ASSUME QInv, NEW e, NEW c \in QCores, Apart(e, QCores \ {c}),
         qcount' = qcount + (IF e \in Counted' THEN 1 ELSE 0) - (IF e \in Counted THEN 1 ELSE 0)
                          + (IF c \in Uncounts' THEN 1 ELSE 0) - (IF c \in Uncounts THEN 1 ELSE 0)
  PROVE  CountInv'
<1>1. Counted \in SUBSET Elems /\ Counted' \in SUBSET Elems BY DEF Counted, Used
<1>2. \A f \in Elems : f # e => (f \in Counted <=> f \in Counted') BY ApartKeeps
<1>3. PICK S : S = Counted OBVIOUS
<1>4. PICK T : T = Counted' OBVIOUS
<1>5. Shift(S, T, e) BY <1>1, <1>2, <1>3, <1>4, SetsAre, ShiftIs
<1>6. \A d \in QCores : d # c => (d \in Uncounts <=> d \in Uncounts') BY DEF Uncounts, Apart
<1>7. Uncounts \in SUBSET QCores /\ Uncounts' \in SUBSET QCores BY DEF Uncounts
<1>8. PICK U : U = Uncounts OBVIOUS
<1>9. PICK V : V = Uncounts' OBVIOUS
<1>10. Shift(U, V, c) BY <1>6, <1>7, <1>8, <1>9, SetsAre, ShiftIs
<1>11. qcount = Cardinality(S) + Cardinality(U) BY <1>3, <1>8 DEF QInv, CountInv
<1>12. qcount' = Cardinality(T) + Cardinality(V)
  BY <1>3, <1>4, <1>5, <1>8, <1>9, <1>10, <1>11 DEF Shift
<1> QED BY <1>4, <1>9, <1>12 DEF CountInv

\* The output queues after a step on element e.
LEMMA OutMoves ==
  ASSUME QInv, NEW e, NEW D \in SUBSET QCores, Apart(e, D)
  PROVE  /\ Shift(OutAll, OutAll', e) /\ Shift(OutNow, OutNow', e)
         /\ \A f \in Elems : f # e => qelem'[f] = qelem[f] /\ (f \in Holding' <=> f \in Holding)
<1>1. \A f \in Elems : f # e => OutAt(f)' = OutAt(f) /\ qelem'[f] = qelem[f]
  BY ApartKeeps DEF Apart
<1>2. OutAll \in SUBSET Elems /\ OutAll' \in SUBSET Elems BY DEF OutAll
<1>3. OutNow \in SUBSET Elems /\ OutNow' \in SUBSET Elems BY DEF OutNow
<1>4. \A f \in Elems : f # e => (f \in OutAll <=> f \in OutAll') BY <1>1 DEF OutAll
<1>5. \A f \in Elems : f # e => (f \in OutNow <=> f \in OutNow') BY <1>1 DEF OutNow
<1>6. Shift(OutAll, OutAll', e) BY <1>2, <1>4, SetsAre, ShiftIs
<1>7. Shift(OutNow, OutNow', e) BY <1>3, <1>5, SetsAre, ShiftIs
<1> QED BY <1>1, <1>6, <1>7 DEF Holding

\* Or none does.
LEMMA OutSame ==
  ASSUME QInv, NEW e, NEW D \in SUBSET QCores, Apart(e, D),
         OutAt(e)' = OutAt(e), OutAt(e) = "holds" => qelem'[e].idx = qelem[e].idx,
         outCount' = outCount, idxFree' = idxFree
  PROVE  OutInv'
<1>1. \A f \in Elems : OutAt(f)' = OutAt(f) BY ApartKeeps
<1>2. OutAll' = OutAll /\ OutNow' = OutNow /\ Holding' = Holding
  BY <1>1 DEF OutAll, OutNow, Holding
<1>3. \A f \in Holding : qelem'[f].idx = qelem[f].idx
  BY DEF Holding, Apart
<1> QED BY <1>2, <1>3 DEF QInv, OutInv

-----------------------------------------------------------------------------
(* Calls *)

\* Everything of the other elements stays.
Others(e) ==
  \A f \in Elems : f # e =>
    /\ qelem'[f] = qelem[f] /\ odpQueue'[f] = odpQueue[f] /\ node'[f] = node[f]
    /\ f \in qpool' <=> f \in qpool
    /\ f \in half' <=> f \in half
    /\ f \in listed' <=> f \in listed

\* The queue that a call is on.
LEMMA InCall ==
  ASSUME QInv, NEW c \in QCores, qcall[c].stage \notin {"none", "count"}
  PROVE  /\ qcall[c].e \in Queues /\ qcall[c].e \in Elems /\ qcall[c].e \in Used
         /\ qcall[c].e \notin qpool /\ qcall[c].e \notin AggrQ /\ qcall[c].e # NoQueue
         /\ StageOf(qcall[c].e) = qcall[c].stage /\ qelem[qcall[c].e] \in Elem
         /\ qcall[c] \in Call /\ CallOK(c) /\ QueueOK(qcall[c].e) /\ KidsOK(qcall[c].e)
<1>1. CallOK(c) /\ OneCall BY DEF QInv, CallsInv
<1>2. qcall[c].e # NoQueue /\ qcall[c].e \in Used /\ qcall[c].e \in Queues BY <1>1 DEF CallOK
<1>3. qcall[c].e \in Elems /\ qcall[c].e \notin AggrQ BY <1>2, SetsAre
<1>4. StageOf(qcall[c].e) = qcall[c].stage BY <1>1, <1>2, StageAt
<1>5. qcall[c] \in Call /\ qelem[qcall[c].e] \in Elem BY <1>3 DEF QInv, QTypeInv
<1>6. QueueOK(qcall[c].e) /\ KidsOK(qcall[c].e)
  BY <1>2, <1>3 DEF QInv, ElemsInv, ElemOK, TreeInv
<1> QED BY <1>1, <1>2, <1>3, <1>4, <1>5, <1>6 DEF Used

\* A call goes on to its next stage ...
LEMMA ToMoves ==
  ASSUME QInv, NEW c \in QCores, NEW s \in Stages, To(c, s), NEW e \in Queues, qcall[c].e = e,
         Others(e)
  PROVE  /\ qcall' \in [QCores -> Call] /\ OneCall' /\ Apart(e, QCores \ {c}) /\ StageOf(e)' = s
         /\ qcall'[c] = [qcall[c] EXCEPT !.stage = s]
<1>1. qcall \in [QCores -> Call] /\ qcall[c] \in Call BY DEF QInv, QTypeInv
<1>2. PICK r : r = [qcall[c] EXCEPT !.stage = s] OBVIOUS
<1>3. r \in Call /\ r.e = e /\ r.stage = s BY <1>1, <1>2 DEF Call
<1>4. qcall' = [qcall EXCEPT ![c] = r] BY <1>2 DEF To
<1>5. /\ OneCall' /\ Apart(e, QCores \ {c})
      /\ r.e = e => StageOf(e)' = r.stage
      /\ r.e # e => StageOf(e)' = "none"
      /\ qcall'[c] = r
  <2> HIDE DEF QInv
  <2>1. Moves(c, e, r) BY <1>3, <1>4 DEF Moves, Others
  <2> QED BY <1>3, <2>1, ApartIs
<1>6. qcall' \in [QCores -> Call] BY <1>1, <1>3, <1>4
<1> QED BY <1>2, <1>3, <1>5, <1>6

\* ... or ends.
LEMMA ReturnMoves ==
  ASSUME QInv, NEW c \in QCores, Return(c), NEW e \in Queues, qcall[c].e = e, Others(e)
  PROVE  /\ qcall' \in [QCores -> Call] /\ OneCall' /\ Apart(e, QCores \ {c}) /\ StageOf(e)' = "none"
         /\ qcall'[c] = NoQCall
<1>1. qcall \in [QCores -> Call] BY DEF QInv, QTypeInv
<1>2. NoQCall \in Call /\ NoQCall.e = NoQueue /\ e # NoQueue
  BY SetsAre DEF NoQCall, Call, Stages, States
<1>3. PICK r : r = NoQCall OBVIOUS
<1>4. r \in Call /\ r.e = NoQueue /\ r.stage = "none" BY <1>2, <1>3 DEF NoQCall
<1>5. qcall' = [qcall EXCEPT ![c] = r] BY <1>3 DEF Return
<1>6. /\ OneCall' /\ Apart(e, QCores \ {c})
      /\ r.e = e => StageOf(e)' = r.stage
      /\ r.e # e => StageOf(e)' = "none"
      /\ qcall'[c] = r
  <2> HIDE DEF QInv
  <2>1. Moves(c, e, r) BY <1>4, <1>5 DEF Moves, Others
  <2> QED BY <1>4, <2>1, ApartIs
<1>7. qcall' \in [QCores -> Call] BY <1>1, <1>4, <1>5
<1> QED BY <1>2, <1>3, <1>4, <1>6, <1>7

\* What is left to show of a step on one queue.
LEMMA OneQueue ==
  ASSUME QInv, NEW e \in Queues, NEW c \in QCores, Apart(e, QCores \ {c}), OneCall', QTypeInv',
         InPoolOK(e)', QueueOK(e)', CallOK(c)', TreeInv', CountInv', ListInv', OutInv', prioMap' = prioMap
  PROVE  QInv'
<1>1. e \in Elems /\ e \notin AggrQ BY SetsAre
<1>2. ElemOK(e)' BY <1>1 DEF ElemOK, AggrOK
<1>3. \A f \in Elems : ElemOK(f)' BY <1>2, ApartKeeps
<1>4. \A d \in QCores : CallOK(d)' BY ApartKeeps
<1>5. PrioMapMonotone' BY DEF QInv, PrioMapMonotone
<1> QED BY <1>3, <1>4, <1>5 DEF QInv, ElemsInv, CallsInv

-----------------------------------------------------------------------------
(* Creating a queue *)

\* The type, name and state of a new queue are stored.
LEMMA SetupStep ==
  ASSUME QInv, NEW c \in QCores, Setup(c)
  PROVE  QInv'
<1>1. PICK e : e = qcall[c].e OBVIOUS
<1>2. PICK t : t = qcall[c].type OBVIOUS
<1>3. qcall[c].stage = "setup" /\ qcall[c].e = e BY <1>1 DEF Setup
<1>4. /\ e \in Queues /\ e \in Elems /\ e \in Used /\ e \notin qpool /\ e # NoQueue
      /\ StageOf(e) = "setup" /\ qelem[e] \in Elem /\ qcall[c] \in Call /\ CallOK(c) /\ QueueOK(e)
  BY <1>1, <1>3, InCall
<1>5. /\ qelem[e].aggr = <<>> /\ qelem[e].parent = NoQueue /\ odpQueue[e] = "none"
      /\ e \notin half /\ e \notin listed /\ e \notin Counted
  BY <1>4 DEF QueueOK, NoOdpAt, Counted
<1>6. t \in {"sched", "unsched", "local", "output", "pktin"} /\ AggrAllowed(t, qcall[c].n)
      /\ qcall[c].kids = <<>>
  BY <1>2, <1>3, <1>4 DEF CallOK
<1>7. PICK st : st = IF t \in {"unsched", "output"} THEN "UNSCHEDULED" ELSE "INIT" OBVIOUS
<1>8. PICK x : x = [NewElem EXCEPT !.type = t, !.idx = qelem[e].idx, !.odp = t = "pktin", !.st = st]
  OBVIOUS
<1>9. /\ x.type = t /\ x.idx = qelem[e].idx /\ x.st = st /\ x.aggr = <<>> /\ x.parent = NoQueue
      /\ x \in Elem
  <2>1. PICK o \in BOOLEAN : o = (t = "pktin") OBVIOUS
  <2>2. x = [type |-> t, st |-> st, aggr |-> <<>>, parent |-> NoQueue, idx |-> qelem[e].idx,
             odp |-> o]
    BY <1>8, <2>1 DEF NewElem
  <2>3. t \in QTypes /\ st \in States /\ <<>> \in Seq(AggrQ) /\ qelem[e].idx \in 0..MaxOutput - 1
    BY <1>4, <1>6, <1>7 DEF QTypes, States, Elem
  <2> QED BY <2>2, <2>3 DEF Elem
<1>10. PICK s : s = IF t = "local" THEN "none" ELSE IF t = "pktin" THEN "context"
                    ELSE IF t # "output" THEN "odp"
                    ELSE IF outCount + 1 > MaxOutput THEN "uncount" ELSE "index"
  OBVIOUS
<1>11. /\ qelem' = [qelem EXCEPT ![e] = x] /\ qcount' = qcount + 1
       /\ outCount' = outCount + (IF t = "output" THEN 1 ELSE 0)
       /\ UNCHANGED <<qpool, odpQueue, idxFree, listed, numQueues, node, nullNode, half, qops, prioMap>>
  BY <1>1, <1>2, <1>7, <1>8 DEF Setup, history
<1>12. (t = "local" /\ Return(c)) \/ (t # "local" /\ To(c, s))
  BY <1>2, <1>6, <1>10 DEF Setup
<1>13. qelem \in [Elems -> Elem] BY DEF QInv, QTypeInv
<1>14. qelem'[e] = x /\ \A f \in Elems : f # e => qelem'[f] = qelem[f] BY <1>4, <1>11, <1>13
<1>15. Others(e) BY <1>11, <1>14 DEF Others
<1>16. s \in Stages BY <1>10 DEF Stages
<1>17. /\ qcall' \in [QCores -> Call] /\ OneCall' /\ Apart(e, QCores \ {c}) /\ StageOf(e)' = s
       /\ qcall'[c] = IF t = "local" THEN NoQCall ELSE [qcall[c] EXCEPT !.stage = s]
  <2>1. CASE t = "local" BY <1>3, <1>4, <1>10, <1>12, <1>15, <2>1, ReturnMoves
  <2>2. CASE t # "local" BY <1>3, <1>4, <1>12, <1>15, <1>16, <2>2, ToMoves
  <2> QED BY <2>1, <2>2
<1>18. e \in Used' /\ e \notin qpool' BY <1>4, <1>11 DEF Used
<1>19. QTypeInv'
  <2>1. outCount' \in Int /\ qcount' \in Int BY <1>11 DEF QInv, QTypeInv
  <2>2. qelem' \in [Elems -> Elem] BY <1>9, <1>11, <1>13
  <2> QED BY <1>11, <1>17, <2>1, <2>2 DEF QInv, QTypeInv
<1>20. InPoolOK(e)' BY <1>18 DEF InPoolOK
<1>21. QueueOK(e)'
  BY <1>5, <1>6, <1>9, <1>10, <1>11, <1>14, <1>17, <1>18, SetsAre DEF QueueOK, NoOdpAt
<1>22. CallOK(c)'
  <2>1. CASE t = "local" BY <1>17, <2>1 DEF CallOK, NoQCall
  <2>2. CASE t # "local"
    <3>1. /\ qcall'[c].stage = s /\ qcall'[c].e = e /\ qcall'[c].type = t /\ qcall'[c].kids = <<>>
          /\ qcall'[c].n = qcall[c].n /\ s \in {"context", "odp", "uncount", "index"}
      BY <1>2, <1>3, <1>4, <1>6, <1>10, <1>17, <2>2 DEF Call
    <3>2. qelem'[e].type = t /\ (qcall[c].n > 0 => t \in {"sched", "unsched"})
      BY <1>4, <1>6, <1>9, <1>14 DEF AggrAllowed
    <3> QED BY <1>4, <1>18, <3>1, <3>2 DEF CallOK
  <2> QED BY <2>1, <2>2
<1>23. TreeInv'
  <2>1. \A d \in QCores : Pending(d)' = Pending(d)
    <3>1. qcall'[c].stage # "aggr" BY <1>3, <1>4, <1>10, <1>17 DEF NoQCall, Call
    <3> QED BY <1>3, <1>17, <3>1 DEF Pending, Apart
  <2> QED BY <1>4, <1>5, <1>9, <1>14, <1>17, <2>1, SetsAre, TreeSame
<1>24. CountInv'
  <2>1. e \in Counted' BY <1>10, <1>17, <1>18 DEF Counted
  <2>2. c \notin Uncounts /\ c \notin Uncounts'
    BY <1>3, <1>4, <1>10, <1>17 DEF Uncounts, NoQCall, Call
  <2>3. qcount' = qcount + 1 /\ qcount \in Int BY <1>11 DEF QInv, QTypeInv
  <2> QED BY <1>4, <1>5, <1>17, <2>1, <2>2, <2>3, CountMoves
<1>25. ListInv' BY <1>11 DEF QInv, ListInv
<1>26. OutInv'
  <2>1. OutAt(e) = "no" BY <1>4 DEF OutAt
  <2>2. CASE t # "output"
    <3>1. OutAt(e)' = "no" BY <1>9, <1>14, <2>2 DEF OutAt
    <3>2. outCount' = outCount /\ idxFree' = idxFree BY <1>11, <2>2 DEF QInv, QTypeInv
    <3> QED BY <1>4, <1>17, <2>1, <3>1, <3>2, OutSame
  <2>3. CASE t = "output"
    <3>1. OutAt(e)' = IF outCount + 1 > MaxOutput THEN "over" ELSE "waits"
      BY <1>9, <1>10, <1>14, <1>17, <1>18, <2>3 DEF OutAt
    <3>2. /\ Shift(OutAll, OutAll', e) /\ Shift(OutNow, OutNow', e)
          /\ \A f \in Elems : f # e => qelem'[f] = qelem[f] /\ (f \in Holding' <=> f \in Holding)
      BY <1>4, <1>17, OutMoves
    <3>3. e \notin OutAll /\ e \notin OutNow /\ e \notin Holding
      BY <2>1 DEF OutAll, OutNow, Holding
    <3>4. e \in OutAll' /\ e \notin Holding' /\ (e \in OutNow' => outCount + 1 <= MaxOutput)
      BY <1>4, <3>1, SetsAre DEF OutAll, OutNow, Holding, QInv, QTypeInv
    <3>5. Holding' = Holding /\ \A f \in Holding : qelem'[f] = qelem[f]
      BY <3>2, <3>3, <3>4 DEF Holding
    <3>6. OutInv BY DEF QInv
    <3>7. outCount' = Cardinality(OutAll') BY <1>11, <2>3, <3>2, <3>3, <3>4, <3>6 DEF OutInv, Shift
    <3>8. Cardinality(OutNow) <= Cardinality(OutAll)
      <4>1. OutNow \in SUBSET OutAll /\ OutAll \in SUBSET Elems BY DEF OutNow, OutAll
      <4> QED BY <4>1, SetsAre, FS_Subset
    <3>9. Cardinality(OutNow') <= MaxOutput
      BY <3>2, <3>3, <3>4, <3>6, <3>8, SetsAre DEF OutInv, Shift
    <3>10. \A f, g \in Holding' : qelem'[f].idx = qelem'[g].idx => f = g BY <3>5, <3>6 DEF OutInv
    <3>11. \A i \in 0..MaxOutput - 1 : idxFree'[i] <=> \A f \in Holding' : qelem'[f].idx # i
      BY <1>11, <3>5, <3>6 DEF OutInv
    <3> QED BY <3>7, <3>9, <3>10, <3>11 DEF OutInv
  <2> QED BY <2>2, <2>3
<1>27. prioMap' = prioMap BY <1>11
<1> QED
  BY <1>4, <1>17, <1>19, <1>20, <1>21, <1>22, <1>23, <1>24, <1>25, <1>26, <1>27, OneQueue

\* Its context for an output queue.
LEMMA SetContextStep ==
  ASSUME QInv, NEW c \in QCores, SetContext(c)
  PROVE  QInv'
<1>1. PICK e : e = qcall[c].e OBVIOUS
<1>2. qcall[c].stage = "context" /\ qcall[c].e = e BY <1>1 DEF SetContext
<1>3. /\ e \in Queues /\ e \in Elems /\ e \in Used /\ e \notin qpool /\ e # NoQueue /\ e \notin AggrQ
      /\ StageOf(e) = "context" /\ qelem[e] \in Elem /\ qcall[c] \in Call /\ CallOK(c) /\ QueueOK(e)
  BY <1>1, <1>2, InCall
<1>4. /\ qelem \in [Elems -> Elem] /\ odpQueue \in [Elems -> OdpSt]
      /\ node \in [Elems -> {"zero", "in", "self"}] /\ outCount \in Int /\ qcount \in Int /\ numQueues \in Int
      /\ qcall[c].n \in 0..MaxAggr /\ Len(qelem[e].aggr) \in Nat
  BY <1>3, LenProperties DEF QInv, QTypeInv, Elem, Call
<1>5. qelem[e].aggr = <<>> /\ qelem[e].type = "pktin" /\ e \notin half /\ e \notin listed
      /\ odpQueue[e] = "none" /\ qelem[e].parent = NoQueue /\ qcall[c].type = "pktin"
  BY <1>2, <1>3 DEF QueueOK, NoOdpAt, CallOK
<1>6. PICK x : x = qelem[e] OBVIOUS
<1>7. /\ x.type = qelem[e].type /\ x.aggr = qelem[e].aggr /\ x.parent = qelem[e].parent
      /\ x.idx = qelem[e].idx /\ x.st = qelem[e].st
      /\ x \in Elem
  BY <1>3, <1>5, <1>6 DEF Elem, QTypes, States
<1>8. PICK s : s = IF Return(c) THEN "none" ELSE "free" OBVIOUS
<1>9. /\ qelem' = qelem
      /\ UNCHANGED <<qpool, odpQueue, qcount, outCount, idxFree, listed, numQueues, node, nullNode, half, qops, prioMap>>
  BY <1>1, <1>2, <1>3, <1>4, <1>5, <1>6 DEF SetContext, history, qshared
<1>10. (s = "none" /\ Return(c)) \/ (s # "none" /\ To(c, s)) BY <1>1, <1>2, <1>3, <1>4, <1>5, <1>8 DEF SetContext
<1>11. /\ qelem'[e] = x /\ odpQueue'[e] = odpQueue[e]
       /\ \A f \in Elems : f # e => qelem'[f] = qelem[f] /\ odpQueue'[f] = odpQueue[f] /\ node'[f] = node[f]
  BY <1>3, <1>4, <1>6, <1>9
<1>12. Others(e) BY <1>9, <1>11 DEF Others
<1>13. s \in Stages BY <1>8 DEF Stages
<1>14. /\ qcall' \in [QCores -> Call] /\ OneCall' /\ Apart(e, QCores \ {c}) /\ StageOf(e)' = s
       /\ s = "none" => qcall'[c] = NoQCall
       /\ s # "none" => qcall'[c] = [qcall[c] EXCEPT !.stage = s]
  <2>1. CASE s = "none" BY <1>2, <1>3, <1>10, <1>12, <2>1, ReturnMoves
  <2>2. CASE s # "none" BY <1>2, <1>3, <1>10, <1>12, <1>13, <2>2, ToMoves
  <2> QED BY <2>1, <2>2
<1>15. e \in Used' /\ e \notin qpool' BY <1>3, <1>9 DEF Used
<1>16. s # "none" => /\ qcall'[c].stage = s /\ qcall'[c].e = e /\ qcall'[c].type = qcall[c].type
                     /\ qcall'[c].n = qcall[c].n /\ qcall'[c].kids = qcall[c].kids
  BY <1>2, <1>3, <1>14 DEF Call
<1>17. s = "none" => qcall'[c].stage = "none" BY <1>14 DEF NoQCall
<1>18. QTypeInv'
  <2>1. qelem' \in [Elems -> Elem] BY <1>3, <1>4, <1>7, <1>9
  <2>2. odpQueue' \in [Elems -> OdpSt] BY <1>3, <1>4, <1>9, <1>11 DEF OdpSt
  <2>4. idxFree \in [0..MaxOutput - 1 -> BOOLEAN] BY DEF QInv, QTypeInv
  <2>5. idxFree' \in [0..MaxOutput - 1 -> BOOLEAN] BY <1>9, <2>4
  <2>3. /\ outCount' \in Int /\ numQueues' \in Int /\ node' \in [Elems -> {"zero", "in", "self"}]
        /\ idxFree' \in [0..MaxOutput - 1 -> BOOLEAN] /\ nullNode' \in BOOLEAN
        /\ listed' \in SUBSET Elems /\ half' \in SUBSET Elems
    BY <1>3, <1>4, <1>7, <1>9, <2>5 DEF QInv, QTypeInv
  <2> QED BY <1>4, <1>9, <1>14, <2>1, <2>2, <2>3 DEF QInv, QTypeInv
<1>19. InPoolOK(e)' BY <1>15 DEF InPoolOK
<1>20. QueueOK(e)'
  BY <1>3, <1>4, <1>5, <1>7, <1>8, <1>9, <1>11, <1>14, <1>15 DEF QueueOK, NoOdpAt
<1>21. CallOK(c)'
  <2>1. CASE s = "none" BY <1>14, <2>1 DEF CallOK, NoQCall
  <2>2. CASE s # "none"
    <3>1. qelem'[e].type = qelem[e].type /\ qelem'[e].aggr = qelem[e].aggr BY <1>7, <1>11
    <3> QED BY <1>2, <1>3, <1>4, <1>5, <1>8, <1>15, <1>16, <2>2, <3>1 DEF CallOK
  <2> QED BY <2>1, <2>2
<1>22. TreeInv'
  <2>1. \A d \in QCores : Pending(d)' = Pending(d)
    <3>1. Pending(c)' = Pending(c) BY <1>2, <1>5, <1>8, <1>16, <1>17 DEF Pending
    <3> QED BY <1>14, <3>1 DEF Pending, Apart
  <2>2. qelem'[e].aggr = qelem[e].aggr BY <1>7, <1>11
  <2>3. qelem[e].aggr # <<>> =>
          /\ e \notin qpool'
          /\ StageOf(e)' = "kids" \/ ((Sends(e)' <=> Sends(e)) /\ StageOf(e) # "kids")
    BY <1>3, <1>5, <1>7, <1>11, <1>15 DEF Sends
  <2> QED BY <1>3, <1>14, <2>1, <2>2, <2>3, TreeSame
<1>23. CountInv'
  <2>1. e \in Counted /\ e \in Counted' BY <1>3, <1>8, <1>14, <1>15 DEF Counted
  <2>2. c \notin Uncounts /\ c \notin Uncounts'
    BY <1>2, <1>8, <1>16, <1>17 DEF Uncounts
  <2>3. qcount' = qcount BY <1>9
  <2> QED BY <1>3, <1>4, <1>14, <2>1, <2>2, <2>3, CountMoves
<1>24. ListInv'
  BY <1>9 DEF QInv, ListInv
<1>25. OutInv'
  <2>1. OutAt(e)' = OutAt(e)
    BY <1>3, <1>5, <1>7, <1>8, <1>11, <1>14, <1>15 DEF OutAt
  <2>2. qelem'[e].idx = qelem[e].idx BY <1>7, <1>11
  <2> QED BY <1>3, <1>9, <1>14, <2>1, <2>2, OutSame
<1>26. prioMap' = prioMap BY <1>9
<1> QED
  BY <1>3, <1>14, <1>18, <1>19, <1>20, <1>21, <1>22, <1>23, <1>24, <1>25, <1>26, OneQueue

\* A queue that waits for an index finds one.
LEMMA FreeIdxIs ==
  ASSUME QInv, NEW e \in Elems, OutAt(e) = "waits"
  PROVE  /\ FreeOutIdx # {} /\ Min(FreeOutIdx) \in 0..MaxOutput - 1 /\ idxFree[Min(FreeOutIdx)]
<1>1. QTypeInv /\ OutInv BY DEF QInv
<1>2. idxFree \in [0..MaxOutput - 1 -> BOOLEAN] /\ DOMAIN idxFree = 0..MaxOutput - 1
  BY <1>1 DEF QTypeInv
<1>3. MaxOutput \in Nat /\ MaxOutput # 0 BY SetsAre
<1>4. FreeOutIdx # {}
  <2>1. SUFFICES ASSUME FreeOutIdx = {} PROVE FALSE OBVIOUS
  <2>2. \A i \in 0..MaxOutput - 1 : \E f \in Holding : qelem[f].idx = i
    BY <1>1, <1>2, <2>1 DEF FreeOutIdx, OutInv
  <2>3. PICK g : g = [f \in Holding |-> qelem[f].idx] OBVIOUS
  <2>4. /\ Holding \in SUBSET Elems /\ OutNow \in SUBSET Elems /\ Holding \in SUBSET OutNow
        /\ e \in OutNow /\ e \notin Holding
    BY DEF Holding, OutNow
  <2>5. IsFiniteSet(Holding) /\ IsFiniteSet(OutNow) BY <2>4, SetsAre, FS_Subset
  <2>6. \A f \in Holding : qelem[f].idx \in 0..MaxOutput - 1 BY <1>1, <2>4 DEF QTypeInv, Elem
  <2>7. g \in Surjection(Holding, 0..MaxOutput - 1) BY <2>2, <2>3, <2>6 DEF Surjection
  <2>8. Cardinality(0..MaxOutput - 1) <= Cardinality(Holding) BY <2>5, <2>7, FS_Surjection
  <2>9. Cardinality(0..MaxOutput - 1) = MaxOutput BY <1>3, FS_Interval
  <2>10. Cardinality(Holding) < Cardinality(OutNow)
    <3>1. Holding \in SUBSET OutNow /\ Holding # OutNow BY <2>4
    <3>2. Cardinality(Holding) <= Cardinality(OutNow)
      BY <2>5, <3>1, FS_Subset
    <3>3. Cardinality(OutNow) # Cardinality(Holding) BY <2>5, <3>1, FS_Subset
    <3>4. Cardinality(OutNow) \in Nat /\ Cardinality(Holding) \in Nat BY <2>5, FS_CardinalityType
    <3> QED BY <3>2, <3>3, <3>4
  <2>11. Cardinality(OutNow) <= MaxOutput BY <1>1 DEF OutInv
  <2>12. Cardinality(OutNow) \in Nat /\ Cardinality(Holding) \in Nat BY <2>5, FS_CardinalityType
  <2> QED BY <1>3, <2>8, <2>9, <2>10, <2>11, <2>12
<1>5. FreeOutIdx \in SUBSET Nat BY <1>2, <1>3 DEF FreeOutIdx
<1>6. Min(FreeOutIdx) \in FreeOutIdx BY <1>4, <1>5, LeastIs
<1> QED BY <1>2, <1>4, <1>6 DEF FreeOutIdx

\* An index for the output function.
LEMMA TakeIndexStep ==
  ASSUME QInv, "output" \notin QFails, NEW c \in QCores, TakeIndex(c)
  PROVE  QInv'
<1>1. PICK e : e = qcall[c].e OBVIOUS
<1>2. qcall[c].stage = "index" /\ qcall[c].e = e BY <1>1 DEF TakeIndex
<1>3. /\ e \in Queues /\ e \in Elems /\ e \in Used /\ e \notin qpool /\ e # NoQueue /\ e \notin AggrQ
      /\ StageOf(e) = "index" /\ qelem[e] \in Elem /\ qcall[c] \in Call /\ CallOK(c) /\ QueueOK(e)
  BY <1>1, <1>2, InCall
<1>4. /\ qelem \in [Elems -> Elem] /\ odpQueue \in [Elems -> OdpSt]
      /\ node \in [Elems -> {"zero", "in", "self"}] /\ outCount \in Int /\ qcount \in Int /\ numQueues \in Int
      /\ qcall[c].n \in 0..MaxAggr /\ Len(qelem[e].aggr) \in Nat
  BY <1>3, LenProperties DEF QInv, QTypeInv, Elem, Call
<1>5. qelem[e].aggr = <<>> /\ qelem[e].type = "output" /\ e \notin half /\ e \notin listed
      /\ odpQueue[e] = "none" /\ qelem[e].parent = NoQueue /\ qcall[c].type = "output" /\ qcall[c].kids = <<>>
      /\ Min(FreeOutIdx) \in 0..MaxOutput - 1 /\ idxFree[Min(FreeOutIdx)] /\ FreeOutIdx # {}
  <2>1. qelem[e].type = "output" BY <1>3 DEF QueueOK
  <2>2. OutAt(e) = "waits" BY <1>3, <2>1 DEF OutAt
  <2>3. FreeOutIdx # {} /\ Min(FreeOutIdx) \in 0..MaxOutput - 1 /\ idxFree[Min(FreeOutIdx)]
    BY <1>3, <2>2, FreeIdxIs
  <2> QED BY <1>2, <1>3, <2>3 DEF QueueOK, NoOdpAt, CallOK
<1>6. PICK x : x = [qelem[e] EXCEPT !.idx = Min(FreeOutIdx)] OBVIOUS
<1>7. /\ x.type = qelem[e].type /\ x.aggr = qelem[e].aggr /\ x.parent = qelem[e].parent
      /\ x.idx = Min(FreeOutIdx) /\ x.st = qelem[e].st
      /\ x \in Elem
  BY <1>3, <1>5, <1>6 DEF Elem, QTypes, States
<1>8. PICK s : s = "odp" OBVIOUS
<1>9. /\ qelem' = [qelem EXCEPT ![e] = x]
      /\ UNCHANGED <<qpool, odpQueue, qcount, outCount, listed, numQueues, node, nullNode, half, qops, prioMap>>
      /\ idxFree' = [idxFree EXCEPT ![x.idx] = FALSE]
  BY <1>1, <1>2, <1>3, <1>4, <1>5, <1>6 DEF TakeIndex, history, qshared
<1>10. To(c, s) /\ s # "none" BY <1>1, <1>2, <1>3, <1>4, <1>5, <1>8 DEF TakeIndex
<1>11. /\ qelem'[e] = x /\ odpQueue'[e] = odpQueue[e]
       /\ \A f \in Elems : f # e => qelem'[f] = qelem[f] /\ odpQueue'[f] = odpQueue[f] /\ node'[f] = node[f]
  BY <1>3, <1>4, <1>6, <1>9
<1>12. Others(e) BY <1>9, <1>11 DEF Others
<1>13. s \in Stages BY <1>8 DEF Stages
<1>14. /\ qcall' \in [QCores -> Call] /\ OneCall' /\ Apart(e, QCores \ {c}) /\ StageOf(e)' = s
       /\ s = "none" => qcall'[c] = NoQCall
       /\ s # "none" => qcall'[c] = [qcall[c] EXCEPT !.stage = s]
  BY <1>2, <1>3, <1>10, <1>12, <1>13, ToMoves
<1>15. e \in Used' /\ e \notin qpool' BY <1>3, <1>9 DEF Used
<1>16. s # "none" => /\ qcall'[c].stage = s /\ qcall'[c].e = e /\ qcall'[c].type = qcall[c].type
                     /\ qcall'[c].n = qcall[c].n /\ qcall'[c].kids = qcall[c].kids
  BY <1>2, <1>3, <1>14 DEF Call
<1>17. s = "none" => qcall'[c].stage = "none" BY <1>14 DEF NoQCall
<1>18. QTypeInv'
  <2>1. qelem' \in [Elems -> Elem] BY <1>3, <1>4, <1>7, <1>9
  <2>2. odpQueue' \in [Elems -> OdpSt] BY <1>3, <1>4, <1>9, <1>11 DEF OdpSt
  <2>4. idxFree \in [0..MaxOutput - 1 -> BOOLEAN] BY DEF QInv, QTypeInv
  <2>5. idxFree' \in [0..MaxOutput - 1 -> BOOLEAN] BY <1>9, <2>4
  <2>3. /\ outCount' \in Int /\ numQueues' \in Int /\ node' \in [Elems -> {"zero", "in", "self"}]
        /\ idxFree' \in [0..MaxOutput - 1 -> BOOLEAN] /\ nullNode' \in BOOLEAN
        /\ listed' \in SUBSET Elems /\ half' \in SUBSET Elems
    BY <1>3, <1>4, <1>7, <1>9, <2>5 DEF QInv, QTypeInv
  <2> QED BY <1>4, <1>9, <1>14, <2>1, <2>2, <2>3 DEF QInv, QTypeInv
<1>19. InPoolOK(e)' BY <1>15 DEF InPoolOK
<1>20. QueueOK(e)'
  BY <1>3, <1>4, <1>5, <1>7, <1>8, <1>9, <1>11, <1>14, <1>15 DEF QueueOK, NoOdpAt
<1>21. CallOK(c)'
  <2>1. CASE s = "none" BY <1>14, <2>1 DEF CallOK, NoQCall
  <2>2. CASE s # "none"
    <3>1. qelem'[e].type = qelem[e].type /\ qelem'[e].aggr = qelem[e].aggr BY <1>7, <1>11
    <3> QED BY <1>2, <1>3, <1>4, <1>5, <1>8, <1>15, <1>16, <2>2, <3>1 DEF CallOK
  <2> QED BY <2>1, <2>2
<1>22. TreeInv'
  <2>1. \A d \in QCores : Pending(d)' = Pending(d)
    <3>1. Pending(c)' = Pending(c) BY <1>2, <1>5, <1>8, <1>16, <1>17 DEF Pending
    <3> QED BY <1>14, <3>1 DEF Pending, Apart
  <2>2. qelem'[e].aggr = qelem[e].aggr BY <1>7, <1>11
  <2>3. qelem[e].aggr # <<>> =>
          /\ e \notin qpool'
          /\ StageOf(e)' = "kids" \/ ((Sends(e)' <=> Sends(e)) /\ StageOf(e) # "kids")
    BY <1>3, <1>5, <1>7, <1>11, <1>15 DEF Sends
  <2> QED BY <1>3, <1>14, <2>1, <2>2, <2>3, TreeSame
<1>23. CountInv'
  <2>1. e \in Counted /\ e \in Counted' BY <1>3, <1>8, <1>14, <1>15 DEF Counted
  <2>2. c \notin Uncounts /\ c \notin Uncounts'
    BY <1>2, <1>8, <1>16, <1>17 DEF Uncounts
  <2>3. qcount' = qcount BY <1>9
  <2> QED BY <1>3, <1>4, <1>14, <2>1, <2>2, <2>3, CountMoves
<1>24. ListInv'
  BY <1>9 DEF QInv, ListInv
<1>25. OutInv'
  <2>1. /\ Shift(OutAll, OutAll', e) /\ Shift(OutNow, OutNow', e)
        /\ \A f \in Elems : f # e => qelem'[f] = qelem[f] /\ (f \in Holding' <=> f \in Holding)
    BY <1>3, <1>14, OutMoves
  <2>2. OutInv BY DEF QInv
  <2>3. OutAt(e) = "waits" /\ OutAt(e)' = "holds"
    BY <1>3, <1>5, <1>7, <1>8, <1>11, <1>14, <1>15 DEF OutAt
  <2>4. /\ e \in OutAll /\ e \in OutNow /\ e \notin Holding
        /\ e \in OutAll' /\ e \in OutNow' /\ e \in Holding'
    BY <1>3, <2>3 DEF OutAll, OutNow, Holding
  <2>5. outCount' = Cardinality(OutAll') BY <1>9, <2>1, <2>2, <2>4 DEF OutInv, Shift
  <2>6. Cardinality(OutNow') <= MaxOutput BY <2>1, <2>2, <2>4 DEF OutInv, Shift
  <2>7. \A f \in Holding' : f = e \/ (f # e /\ f \in Holding /\ qelem'[f].idx = qelem[f].idx /\ qelem[f].idx # x.idx)
    BY <1>5, <1>7, <2>1, <2>2 DEF OutInv, Holding
  <2>8. \A f, g \in Holding' : qelem'[f].idx = qelem'[g].idx => f = g
    BY <1>11, <2>2, <2>7 DEF OutInv
  <2>9. ASSUME NEW i \in 0..MaxOutput - 1
        PROVE  idxFree'[i] <=> \A f \in Holding' : qelem'[f].idx # i
    <3>1. idxFree[i] <=> \A f \in Holding : qelem[f].idx # i BY <2>2 DEF OutInv
    <3>2. idxFree \in [0..MaxOutput - 1 -> BOOLEAN] BY DEF QInv, QTypeInv
    <3>3. CASE i = x.idx BY <1>9, <1>11, <2>4, <3>2, <3>3
    <3>4. CASE i # x.idx
      <4>1. idxFree'[i] <=> idxFree[i] BY <1>9, <3>2, <3>4
      <4>2. \A f \in Holding : f # e /\ f \in Holding' /\ qelem'[f].idx = qelem[f].idx
        BY <2>1, <2>4 DEF Holding
      <4> QED BY <1>11, <2>7, <3>1, <3>4, <4>1, <4>2
    <3> QED BY <3>3, <3>4
  <2> QED BY <2>5, <2>6, <2>8, <2>9 DEF OutInv
<1>26. prioMap' = prioMap BY <1>9
<1> QED
  BY <1>3, <1>14, <1>18, <1>19, <1>20, <1>21, <1>22, <1>23, <1>24, <1>25, <1>26, OneQueue

\* Which is given back, with its count, if there is none.
LEMMA UncountStep ==
  ASSUME QInv, NEW c \in QCores, Uncount(c)
  PROVE  QInv'
<1>1. PICK e : e = qcall[c].e OBVIOUS
<1>2. qcall[c].stage = "uncount" /\ qcall[c].e = e BY <1>1 DEF Uncount
<1>3. /\ e \in Queues /\ e \in Elems /\ e \in Used /\ e \notin qpool /\ e # NoQueue /\ e \notin AggrQ
      /\ StageOf(e) = "uncount" /\ qelem[e] \in Elem /\ qcall[c] \in Call /\ CallOK(c) /\ QueueOK(e)
  BY <1>1, <1>2, InCall
<1>4. /\ qelem \in [Elems -> Elem] /\ odpQueue \in [Elems -> OdpSt]
      /\ node \in [Elems -> {"zero", "in", "self"}] /\ outCount \in Int /\ qcount \in Int /\ numQueues \in Int
      /\ qcall[c].n \in 0..MaxAggr /\ Len(qelem[e].aggr) \in Nat
  BY <1>3, LenProperties DEF QInv, QTypeInv, Elem, Call
<1>5. qelem[e].aggr = <<>> /\ qelem[e].type = "output" /\ e \notin half /\ e \notin listed
      /\ odpQueue[e] = "none" /\ qelem[e].parent = NoQueue /\ qcall[c].type = "output"
  BY <1>2, <1>3 DEF QueueOK, NoOdpAt, CallOK
<1>6. PICK x : x = qelem[e] OBVIOUS
<1>7. /\ x.type = qelem[e].type /\ x.aggr = qelem[e].aggr /\ x.parent = qelem[e].parent
      /\ x.idx = qelem[e].idx /\ x.st = qelem[e].st
      /\ x \in Elem
  BY <1>3, <1>5, <1>6 DEF Elem, QTypes, States
<1>8. PICK s : s = "free" OBVIOUS
<1>9. /\ qelem' = qelem
      /\ UNCHANGED <<qpool, odpQueue, qcount, idxFree, listed, numQueues, node, nullNode, half, qops, prioMap>>
      /\ outCount' = outCount - 1
  BY <1>1, <1>2, <1>3, <1>4, <1>5, <1>6 DEF Uncount, history, qshared
<1>10. To(c, s) /\ s # "none" BY <1>1, <1>2, <1>3, <1>4, <1>5, <1>8 DEF Uncount
<1>11. /\ qelem'[e] = x /\ odpQueue'[e] = odpQueue[e]
       /\ \A f \in Elems : f # e => qelem'[f] = qelem[f] /\ odpQueue'[f] = odpQueue[f] /\ node'[f] = node[f]
  BY <1>3, <1>4, <1>6, <1>9
<1>12. Others(e) BY <1>9, <1>11 DEF Others
<1>13. s \in Stages BY <1>8 DEF Stages
<1>14. /\ qcall' \in [QCores -> Call] /\ OneCall' /\ Apart(e, QCores \ {c}) /\ StageOf(e)' = s
       /\ s = "none" => qcall'[c] = NoQCall
       /\ s # "none" => qcall'[c] = [qcall[c] EXCEPT !.stage = s]
  BY <1>2, <1>3, <1>10, <1>12, <1>13, ToMoves
<1>15. e \in Used' /\ e \notin qpool' BY <1>3, <1>9 DEF Used
<1>16. s # "none" => /\ qcall'[c].stage = s /\ qcall'[c].e = e /\ qcall'[c].type = qcall[c].type
                     /\ qcall'[c].n = qcall[c].n /\ qcall'[c].kids = qcall[c].kids
  BY <1>2, <1>3, <1>14 DEF Call
<1>17. s = "none" => qcall'[c].stage = "none" BY <1>14 DEF NoQCall
<1>18. QTypeInv'
  <2>1. qelem' \in [Elems -> Elem] BY <1>3, <1>4, <1>7, <1>9
  <2>2. odpQueue' \in [Elems -> OdpSt] BY <1>3, <1>4, <1>9, <1>11 DEF OdpSt
  <2>4. idxFree \in [0..MaxOutput - 1 -> BOOLEAN] BY DEF QInv, QTypeInv
  <2>5. idxFree' \in [0..MaxOutput - 1 -> BOOLEAN] BY <1>9, <2>4
  <2>3. /\ outCount' \in Int /\ numQueues' \in Int /\ node' \in [Elems -> {"zero", "in", "self"}]
        /\ idxFree' \in [0..MaxOutput - 1 -> BOOLEAN] /\ nullNode' \in BOOLEAN
        /\ listed' \in SUBSET Elems /\ half' \in SUBSET Elems
    BY <1>3, <1>4, <1>7, <1>9, <2>5 DEF QInv, QTypeInv
  <2> QED BY <1>4, <1>9, <1>14, <2>1, <2>2, <2>3 DEF QInv, QTypeInv
<1>19. InPoolOK(e)' BY <1>15 DEF InPoolOK
<1>20. QueueOK(e)'
  BY <1>3, <1>4, <1>5, <1>7, <1>8, <1>9, <1>11, <1>14, <1>15 DEF QueueOK, NoOdpAt
<1>21. CallOK(c)'
  <2>1. CASE s = "none" BY <1>14, <2>1 DEF CallOK, NoQCall
  <2>2. CASE s # "none"
    <3>1. qelem'[e].type = qelem[e].type /\ qelem'[e].aggr = qelem[e].aggr BY <1>7, <1>11
    <3> QED BY <1>2, <1>3, <1>4, <1>5, <1>8, <1>15, <1>16, <2>2, <3>1 DEF CallOK
  <2> QED BY <2>1, <2>2
<1>22. TreeInv'
  <2>1. \A d \in QCores : Pending(d)' = Pending(d)
    <3>1. Pending(c)' = Pending(c) BY <1>2, <1>5, <1>8, <1>16, <1>17 DEF Pending
    <3> QED BY <1>14, <3>1 DEF Pending, Apart
  <2>2. qelem'[e].aggr = qelem[e].aggr BY <1>7, <1>11
  <2>3. qelem[e].aggr # <<>> =>
          /\ e \notin qpool'
          /\ StageOf(e)' = "kids" \/ ((Sends(e)' <=> Sends(e)) /\ StageOf(e) # "kids")
    BY <1>3, <1>5, <1>7, <1>11, <1>15 DEF Sends
  <2> QED BY <1>3, <1>14, <2>1, <2>2, <2>3, TreeSame
<1>23. CountInv'
  <2>1. e \in Counted /\ e \in Counted' BY <1>3, <1>8, <1>14, <1>15 DEF Counted
  <2>2. c \notin Uncounts /\ c \notin Uncounts'
    BY <1>2, <1>8, <1>16, <1>17 DEF Uncounts
  <2>3. qcount' = qcount BY <1>9
  <2> QED BY <1>3, <1>4, <1>14, <2>1, <2>2, <2>3, CountMoves
<1>24. ListInv'
  BY <1>9 DEF QInv, ListInv
<1>25. OutInv'
  <2>1. /\ Shift(OutAll, OutAll', e) /\ Shift(OutNow, OutNow', e)
        /\ \A f \in Elems : f # e => qelem'[f] = qelem[f] /\ (f \in Holding' <=> f \in Holding)
    BY <1>3, <1>14, OutMoves
  <2>2. OutInv BY DEF QInv
  <2>3. OutAt(e) = "over" /\ OutAt(e)' = "no"
    BY <1>3, <1>5, <1>7, <1>8, <1>11, <1>14, <1>15 DEF OutAt
  <2>4. /\ e \in OutAll /\ e \notin OutNow /\ e \notin Holding
        /\ e \notin OutAll' /\ e \notin OutNow' /\ e \notin Holding'
    BY <1>3, <2>3 DEF OutAll, OutNow, Holding
  <2>5. outCount' = Cardinality(OutAll') BY <1>9, <2>1, <2>2, <2>4 DEF OutInv, Shift
  <2>6. Cardinality(OutNow') <= MaxOutput BY <2>1, <2>2, <2>4 DEF OutInv, Shift
  <2>7. Holding' = Holding /\ \A f \in Holding : qelem'[f] = qelem[f] BY <2>1, <2>4 DEF Holding
  <2>8. \A f, g \in Holding' : qelem'[f].idx = qelem'[g].idx => f = g BY <2>2, <2>7 DEF OutInv
  <2>9. \A i \in 0..MaxOutput - 1 : idxFree'[i] <=> \A f \in Holding' : qelem'[f].idx # i
    BY <1>9, <2>2, <2>7 DEF OutInv
  <2> QED BY <2>5, <2>6, <2>8, <2>9 DEF OutInv
<1>26. prioMap' = prioMap BY <1>9
<1> QED
  BY <1>3, <1>14, <1>18, <1>19, <1>20, <1>21, <1>22, <1>23, <1>24, <1>25, <1>26, OneQueue

\* create_odp_queue() succeeds, or fails.
CreateOdpDone(c) ==
  /\ qcall[c].stage = "odp"
  /\ odpQueue' = [odpQueue EXCEPT ![qcall[c].e] = "empty"]
  /\ qelem' = [qelem EXCEPT ![qcall[c].e].odp = TRUE]
  /\ IF qcall[c].n > 0 THEN To(c, "aggr")
     ELSE IF qcall[c].type = "sched" THEN To(c, "list") ELSE Return(c)
  /\ UNCHANGED <<qpool, qcount, qshared, history>>
CreateOdpFails(c) ==
  /\ qcall[c].stage = "odp" /\ qcall[c].type # "output" /\ To(c, "free")
  /\ UNCHANGED <<qelem, odpQueue, qpool, qcount, qshared, history>>

\* odp_queue_create() makes the ODP queue.
LEMMA CreateOdpDoneStep ==
  ASSUME QInv, NEW c \in QCores, CreateOdpDone(c)
  PROVE  QInv'
<1>1. PICK e : e = qcall[c].e OBVIOUS
<1>2. qcall[c].stage = "odp" /\ qcall[c].e = e BY <1>1 DEF CreateOdpDone
<1>3. /\ e \in Queues /\ e \in Elems /\ e \in Used /\ e \notin qpool /\ e # NoQueue /\ e \notin AggrQ
      /\ StageOf(e) = "odp" /\ qelem[e] \in Elem /\ qcall[c] \in Call /\ CallOK(c) /\ QueueOK(e)
  BY <1>1, <1>2, InCall
<1>4. /\ qelem \in [Elems -> Elem] /\ odpQueue \in [Elems -> OdpSt]
      /\ node \in [Elems -> {"zero", "in", "self"}] /\ outCount \in Int /\ qcount \in Int /\ numQueues \in Int
      /\ qcall[c].n \in 0..MaxAggr /\ Len(qelem[e].aggr) \in Nat
  BY <1>3, LenProperties DEF QInv, QTypeInv, Elem, Call
<1>5. /\ qelem[e].aggr = <<>> /\ qelem[e].type = qcall[c].type /\ e \notin half /\ e \notin listed
      /\ odpQueue[e] = "none" /\ qelem[e].parent = NoQueue /\ qcall[c].type \in {"sched", "unsched", "output"}
      /\ qcall[c].n > 0 => qcall[c].type \in {"sched", "unsched"}
      /\ qcall[c].kids = <<>> /\ Len(qcall[c].kids) = 0
  BY <1>2, <1>3 DEF QueueOK, NoOdpAt, CallOK
<1>6. PICK x : x = [qelem[e] EXCEPT !.odp = TRUE] OBVIOUS
<1>7. /\ x.type = qelem[e].type /\ x.aggr = qelem[e].aggr /\ x.parent = qelem[e].parent
      /\ x.idx = qelem[e].idx /\ x.st = qelem[e].st
      /\ x \in Elem
  BY <1>3, <1>5, <1>6 DEF Elem, QTypes, States
<1>8. PICK s : s = IF qcall[c].n > 0 THEN "aggr" ELSE IF qcall[c].type = "sched" THEN "list" ELSE "none" OBVIOUS
<1>9. /\ qelem' = [qelem EXCEPT ![e] = x]
      /\ UNCHANGED <<qpool, qcount, outCount, idxFree, listed, numQueues, node, nullNode, half, qops, prioMap>>
      /\ odpQueue' = [odpQueue EXCEPT ![e] = "empty"]
  BY <1>1, <1>2, <1>3, <1>4, <1>5, <1>6 DEF CreateOdpDone, history, qshared
<1>10. (s = "none" /\ Return(c)) \/ (s # "none" /\ To(c, s)) BY <1>1, <1>2, <1>3, <1>4, <1>5, <1>8 DEF CreateOdpDone
<1>11. /\ qelem'[e] = x /\ odpQueue'[e] = "empty"
       /\ \A f \in Elems : f # e => qelem'[f] = qelem[f] /\ odpQueue'[f] = odpQueue[f] /\ node'[f] = node[f]
  BY <1>3, <1>4, <1>6, <1>9
<1>12. Others(e) BY <1>9, <1>11 DEF Others
<1>13. s \in Stages BY <1>8 DEF Stages
<1>14. /\ qcall' \in [QCores -> Call] /\ OneCall' /\ Apart(e, QCores \ {c}) /\ StageOf(e)' = s
       /\ s = "none" => qcall'[c] = NoQCall
       /\ s # "none" => qcall'[c] = [qcall[c] EXCEPT !.stage = s]
  <2>1. CASE s = "none" BY <1>2, <1>3, <1>10, <1>12, <2>1, ReturnMoves
  <2>2. CASE s # "none" BY <1>2, <1>3, <1>10, <1>12, <1>13, <2>2, ToMoves
  <2> QED BY <2>1, <2>2
<1>15. e \in Used' /\ e \notin qpool' BY <1>3, <1>9 DEF Used
<1>16. s # "none" => /\ qcall'[c].stage = s /\ qcall'[c].e = e /\ qcall'[c].type = qcall[c].type
                     /\ qcall'[c].n = qcall[c].n /\ qcall'[c].kids = qcall[c].kids
  BY <1>2, <1>3, <1>14 DEF Call
<1>17. s = "none" => qcall'[c].stage = "none" BY <1>14 DEF NoQCall
<1>18. QTypeInv'
  <2>1. qelem' \in [Elems -> Elem] BY <1>3, <1>4, <1>7, <1>9
  <2>2. odpQueue' \in [Elems -> OdpSt] BY <1>3, <1>4, <1>9, <1>11 DEF OdpSt
  <2>4. idxFree \in [0..MaxOutput - 1 -> BOOLEAN] BY DEF QInv, QTypeInv
  <2>5. idxFree' \in [0..MaxOutput - 1 -> BOOLEAN] BY <1>9, <2>4
  <2>3. /\ outCount' \in Int /\ numQueues' \in Int /\ node' \in [Elems -> {"zero", "in", "self"}]
        /\ idxFree' \in [0..MaxOutput - 1 -> BOOLEAN] /\ nullNode' \in BOOLEAN
        /\ listed' \in SUBSET Elems /\ half' \in SUBSET Elems
    BY <1>3, <1>4, <1>7, <1>9, <2>5 DEF QInv, QTypeInv
  <2> QED BY <1>4, <1>9, <1>14, <2>1, <2>2, <2>3 DEF QInv, QTypeInv
<1>19. InPoolOK(e)' BY <1>15 DEF InPoolOK
<1>20. QueueOK(e)'
  BY <1>3, <1>4, <1>5, <1>7, <1>8, <1>9, <1>11, <1>14, <1>15 DEF QueueOK, NoOdpAt
<1>21. CallOK(c)'
  <2>1. CASE s = "none" BY <1>14, <2>1 DEF CallOK, NoQCall
  <2>2. CASE s # "none"
    <3>1. qelem'[e].type = qelem[e].type /\ qelem'[e].aggr = qelem[e].aggr BY <1>7, <1>11
    <3> QED BY <1>2, <1>3, <1>4, <1>5, <1>8, <1>15, <1>16, <2>2, <3>1 DEF CallOK
  <2> QED BY <2>1, <2>2
<1>22. TreeInv'
  <2>1. \A d \in QCores : Pending(d)' = Pending(d)
    <3>1. Pending(c)' = Pending(c) BY <1>2, <1>5, <1>8, <1>16, <1>17 DEF Pending
    <3> QED BY <1>14, <3>1 DEF Pending, Apart
  <2>2. qelem'[e].aggr = qelem[e].aggr BY <1>7, <1>11
  <2>3. qelem[e].aggr # <<>> =>
          /\ e \notin qpool'
          /\ StageOf(e)' = "kids" \/ ((Sends(e)' <=> Sends(e)) /\ StageOf(e) # "kids")
    BY <1>3, <1>5, <1>7, <1>11, <1>15 DEF Sends
  <2> QED BY <1>3, <1>14, <2>1, <2>2, <2>3, TreeSame
<1>23. CountInv'
  <2>1. e \in Counted /\ e \in Counted' BY <1>3, <1>8, <1>14, <1>15 DEF Counted
  <2>2. c \notin Uncounts /\ c \notin Uncounts'
    BY <1>2, <1>8, <1>16, <1>17 DEF Uncounts
  <2>3. qcount' = qcount BY <1>9
  <2> QED BY <1>3, <1>4, <1>14, <2>1, <2>2, <2>3, CountMoves
<1>24. ListInv'
  BY <1>9 DEF QInv, ListInv
<1>25. OutInv'
  <2>1. OutAt(e)' = OutAt(e)
    BY <1>3, <1>5, <1>7, <1>8, <1>11, <1>14, <1>15 DEF OutAt
  <2>2. qelem'[e].idx = qelem[e].idx BY <1>7, <1>11
  <2> QED BY <1>3, <1>9, <1>14, <2>1, <2>2, OutSame
<1>26. prioMap' = prioMap BY <1>9
<1> QED
  BY <1>3, <1>14, <1>18, <1>19, <1>20, <1>21, <1>22, <1>23, <1>24, <1>25, <1>26, OneQueue

\* Or fails.
LEMMA CreateOdpFailsStep ==
  ASSUME QInv, NEW c \in QCores, CreateOdpFails(c)
  PROVE  QInv'
<1>1. PICK e : e = qcall[c].e OBVIOUS
<1>2. qcall[c].stage = "odp" /\ qcall[c].e = e BY <1>1 DEF CreateOdpFails
<1>3. /\ e \in Queues /\ e \in Elems /\ e \in Used /\ e \notin qpool /\ e # NoQueue /\ e \notin AggrQ
      /\ StageOf(e) = "odp" /\ qelem[e] \in Elem /\ qcall[c] \in Call /\ CallOK(c) /\ QueueOK(e)
  BY <1>1, <1>2, InCall
<1>4. /\ qelem \in [Elems -> Elem] /\ odpQueue \in [Elems -> OdpSt]
      /\ node \in [Elems -> {"zero", "in", "self"}] /\ outCount \in Int /\ qcount \in Int /\ numQueues \in Int
      /\ qcall[c].n \in 0..MaxAggr /\ Len(qelem[e].aggr) \in Nat
  BY <1>3, LenProperties DEF QInv, QTypeInv, Elem, Call
<1>5. /\ qelem[e].aggr = <<>> /\ qelem[e].type = qcall[c].type /\ e \notin half /\ e \notin listed
      /\ odpQueue[e] = "none" /\ qelem[e].parent = NoQueue /\ qcall[c].type \in {"sched", "unsched", "output"}
      /\ qcall[c].n > 0 => qcall[c].type \in {"sched", "unsched"}
      /\ qcall[c].kids = <<>> /\ Len(qcall[c].kids) = 0
      /\ qelem[e].type # "output"
  BY <1>2, <1>3 DEF QueueOK, NoOdpAt, CallOK, CreateOdpFails
<1>6. PICK x : x = qelem[e] OBVIOUS
<1>7. /\ x.type = qelem[e].type /\ x.aggr = qelem[e].aggr /\ x.parent = qelem[e].parent
      /\ x.idx = qelem[e].idx /\ x.st = qelem[e].st
      /\ x \in Elem
  BY <1>3, <1>5, <1>6 DEF Elem, QTypes, States
<1>8. PICK s : s = "free" OBVIOUS
<1>9. /\ qelem' = qelem
      /\ UNCHANGED <<qpool, odpQueue, qcount, outCount, idxFree, listed, numQueues, node, nullNode, half, qops, prioMap>>
  BY <1>1, <1>2, <1>3, <1>4, <1>5, <1>6 DEF CreateOdpFails, history, qshared
<1>10. To(c, s) /\ s # "none" BY <1>1, <1>2, <1>3, <1>4, <1>5, <1>8 DEF CreateOdpFails
<1>11. /\ qelem'[e] = x /\ odpQueue'[e] = odpQueue[e]
       /\ \A f \in Elems : f # e => qelem'[f] = qelem[f] /\ odpQueue'[f] = odpQueue[f] /\ node'[f] = node[f]
  BY <1>3, <1>4, <1>6, <1>9
<1>12. Others(e) BY <1>9, <1>11 DEF Others
<1>13. s \in Stages BY <1>8 DEF Stages
<1>14. /\ qcall' \in [QCores -> Call] /\ OneCall' /\ Apart(e, QCores \ {c}) /\ StageOf(e)' = s
       /\ s = "none" => qcall'[c] = NoQCall
       /\ s # "none" => qcall'[c] = [qcall[c] EXCEPT !.stage = s]
  BY <1>2, <1>3, <1>10, <1>12, <1>13, ToMoves
<1>15. e \in Used' /\ e \notin qpool' BY <1>3, <1>9 DEF Used
<1>16. s # "none" => /\ qcall'[c].stage = s /\ qcall'[c].e = e /\ qcall'[c].type = qcall[c].type
                     /\ qcall'[c].n = qcall[c].n /\ qcall'[c].kids = qcall[c].kids
  BY <1>2, <1>3, <1>14 DEF Call
<1>17. s = "none" => qcall'[c].stage = "none" BY <1>14 DEF NoQCall
<1>18. QTypeInv'
  <2>1. qelem' \in [Elems -> Elem] BY <1>3, <1>4, <1>7, <1>9
  <2>2. odpQueue' \in [Elems -> OdpSt] BY <1>3, <1>4, <1>9, <1>11 DEF OdpSt
  <2>4. idxFree \in [0..MaxOutput - 1 -> BOOLEAN] BY DEF QInv, QTypeInv
  <2>5. idxFree' \in [0..MaxOutput - 1 -> BOOLEAN] BY <1>9, <2>4
  <2>3. /\ outCount' \in Int /\ numQueues' \in Int /\ node' \in [Elems -> {"zero", "in", "self"}]
        /\ idxFree' \in [0..MaxOutput - 1 -> BOOLEAN] /\ nullNode' \in BOOLEAN
        /\ listed' \in SUBSET Elems /\ half' \in SUBSET Elems
    BY <1>3, <1>4, <1>7, <1>9, <2>5 DEF QInv, QTypeInv
  <2> QED BY <1>4, <1>9, <1>14, <2>1, <2>2, <2>3 DEF QInv, QTypeInv
<1>19. InPoolOK(e)' BY <1>15 DEF InPoolOK
<1>20. QueueOK(e)'
  BY <1>3, <1>4, <1>5, <1>7, <1>8, <1>9, <1>11, <1>14, <1>15 DEF QueueOK, NoOdpAt
<1>21. CallOK(c)'
  <2>1. CASE s = "none" BY <1>14, <2>1 DEF CallOK, NoQCall
  <2>2. CASE s # "none"
    <3>1. qelem'[e].type = qelem[e].type /\ qelem'[e].aggr = qelem[e].aggr BY <1>7, <1>11
    <3> QED BY <1>2, <1>3, <1>4, <1>5, <1>8, <1>15, <1>16, <2>2, <3>1 DEF CallOK
  <2> QED BY <2>1, <2>2
<1>22. TreeInv'
  <2>1. \A d \in QCores : Pending(d)' = Pending(d)
    <3>1. Pending(c)' = Pending(c) BY <1>2, <1>5, <1>8, <1>16, <1>17 DEF Pending
    <3> QED BY <1>14, <3>1 DEF Pending, Apart
  <2>2. qelem'[e].aggr = qelem[e].aggr BY <1>7, <1>11
  <2>3. qelem[e].aggr # <<>> =>
          /\ e \notin qpool'
          /\ StageOf(e)' = "kids" \/ ((Sends(e)' <=> Sends(e)) /\ StageOf(e) # "kids")
    BY <1>3, <1>5, <1>7, <1>11, <1>15 DEF Sends
  <2> QED BY <1>3, <1>14, <2>1, <2>2, <2>3, TreeSame
<1>23. CountInv'
  <2>1. e \in Counted /\ e \in Counted' BY <1>3, <1>8, <1>14, <1>15 DEF Counted
  <2>2. c \notin Uncounts /\ c \notin Uncounts'
    BY <1>2, <1>8, <1>16, <1>17 DEF Uncounts
  <2>3. qcount' = qcount BY <1>9
  <2> QED BY <1>3, <1>4, <1>14, <2>1, <2>2, <2>3, CountMoves
<1>24. ListInv'
  BY <1>9 DEF QInv, ListInv
<1>25. OutInv'
  <2>1. OutAt(e)' = OutAt(e)
    BY <1>3, <1>5, <1>7, <1>8, <1>11, <1>14, <1>15 DEF OutAt
  <2>2. qelem'[e].idx = qelem[e].idx BY <1>7, <1>11
  <2> QED BY <1>3, <1>9, <1>14, <2>1, <2>2, OutSame
<1>26. prioMap' = prioMap BY <1>9
<1> QED
  BY <1>3, <1>14, <1>18, <1>19, <1>20, <1>21, <1>22, <1>23, <1>24, <1>25, <1>26, OneQueue

\* One of both.
LEMMA CreateOdpStep ==
  ASSUME QInv, "output" \notin QFails, NEW c \in QCores, CreateOdp(c)
  PROVE  QInv'
<1>1. CreateOdpDone(c) \/ CreateOdpFails(c) BY DEF CreateOdp, CreateOdpDone, CreateOdpFails
<1> QED BY <1>1, CreateOdpDoneStep, CreateOdpFailsStep

\* The queue is added to the list of its EO.
LEMMA AddToListStep ==
  ASSUME QInv, NEW c \in QCores, AddToList(c)
  PROVE  QInv'
<1>1. PICK e : e = qcall[c].e OBVIOUS
<1>2. qcall[c].stage = "list" /\ qcall[c].e = e BY <1>1 DEF AddToList
<1>3. /\ e \in Queues /\ e \in Elems /\ e \in Used /\ e \notin qpool /\ e # NoQueue /\ e \notin AggrQ
      /\ StageOf(e) = "list" /\ qelem[e] \in Elem /\ qcall[c] \in Call /\ CallOK(c) /\ QueueOK(e)
  BY <1>1, <1>2, InCall
<1>4. /\ qelem \in [Elems -> Elem] /\ odpQueue \in [Elems -> OdpSt]
      /\ node \in [Elems -> {"zero", "in", "self"}] /\ outCount \in Int /\ qcount \in Int /\ numQueues \in Int
      /\ qcall[c].n \in 0..MaxAggr /\ Len(qelem[e].aggr) \in Nat
  BY <1>3, LenProperties DEF QInv, QTypeInv, Elem, Call
<1>5. /\ qelem[e].type = "sched" /\ e \notin half /\ e \notin listed
      /\ odpQueue[e] # "none" /\ qelem[e].parent = NoQueue /\ qcall[c].type = "sched"
  BY <1>2, <1>3 DEF QueueOK, NoOdpAt, CallOK
<1>6. PICK x : x = qelem[e] OBVIOUS
<1>7. /\ x.type = qelem[e].type /\ x.aggr = qelem[e].aggr /\ x.parent = qelem[e].parent
      /\ x.idx = qelem[e].idx /\ x.st = qelem[e].st
      /\ x \in Elem
  BY <1>3, <1>5, <1>6 DEF Elem, QTypes, States
<1>8. PICK s : s = "none" OBVIOUS
<1>9. /\ qelem' = qelem
      /\ UNCHANGED <<qpool, odpQueue, qcount, outCount, idxFree, nullNode, half, qops, prioMap>>
      /\ listed' = listed \cup {e} /\ numQueues' = numQueues + 1 /\ node' = [node EXCEPT ![e] = "in"]
  BY <1>1, <1>2, <1>3, <1>4, <1>5, <1>6 DEF AddToList, history, qshared
<1>10. Return(c) /\ s = "none" BY <1>1, <1>2, <1>3, <1>4, <1>5, <1>8 DEF AddToList
<1>11. /\ qelem'[e] = x /\ odpQueue'[e] = odpQueue[e]
       /\ \A f \in Elems : f # e => qelem'[f] = qelem[f] /\ odpQueue'[f] = odpQueue[f] /\ node'[f] = node[f]
  BY <1>3, <1>4, <1>6, <1>9
<1>12. Others(e) BY <1>9, <1>11 DEF Others
<1>13. s \in Stages BY <1>8 DEF Stages
<1>14. /\ qcall' \in [QCores -> Call] /\ OneCall' /\ Apart(e, QCores \ {c}) /\ StageOf(e)' = s
       /\ s = "none" => qcall'[c] = NoQCall
       /\ s # "none" => qcall'[c] = [qcall[c] EXCEPT !.stage = s]
  BY <1>2, <1>3, <1>10, <1>12, ReturnMoves
<1>15. e \in Used' /\ e \notin qpool' BY <1>3, <1>9 DEF Used
<1>16. s # "none" => /\ qcall'[c].stage = s /\ qcall'[c].e = e /\ qcall'[c].type = qcall[c].type
                     /\ qcall'[c].n = qcall[c].n /\ qcall'[c].kids = qcall[c].kids
  BY <1>2, <1>3, <1>14 DEF Call
<1>17. s = "none" => qcall'[c].stage = "none" BY <1>14 DEF NoQCall
<1>18. QTypeInv'
  <2>1. qelem' \in [Elems -> Elem] BY <1>3, <1>4, <1>7, <1>9
  <2>2. odpQueue' \in [Elems -> OdpSt] BY <1>3, <1>4, <1>9, <1>11 DEF OdpSt
  <2>4. idxFree \in [0..MaxOutput - 1 -> BOOLEAN] BY DEF QInv, QTypeInv
  <2>5. idxFree' \in [0..MaxOutput - 1 -> BOOLEAN] BY <1>9, <2>4
  <2>3. /\ outCount' \in Int /\ numQueues' \in Int /\ node' \in [Elems -> {"zero", "in", "self"}]
        /\ idxFree' \in [0..MaxOutput - 1 -> BOOLEAN] /\ nullNode' \in BOOLEAN
        /\ listed' \in SUBSET Elems /\ half' \in SUBSET Elems
    BY <1>3, <1>4, <1>7, <1>9, <2>5 DEF QInv, QTypeInv
  <2> QED BY <1>4, <1>9, <1>14, <2>1, <2>2, <2>3 DEF QInv, QTypeInv
<1>19. InPoolOK(e)' BY <1>15 DEF InPoolOK
<1>20. QueueOK(e)'
  BY <1>3, <1>4, <1>5, <1>7, <1>8, <1>9, <1>11, <1>14, <1>15 DEF QueueOK, NoOdpAt
<1>21. CallOK(c)'
  <2>1. CASE s = "none" BY <1>14, <2>1 DEF CallOK, NoQCall
  <2>2. CASE s # "none"
    <3>1. qelem'[e].type = qelem[e].type /\ qelem'[e].aggr = qelem[e].aggr BY <1>7, <1>11
    <3> QED BY <1>2, <1>3, <1>4, <1>5, <1>8, <1>15, <1>16, <2>2, <3>1 DEF CallOK
  <2> QED BY <2>1, <2>2
<1>22. TreeInv'
  <2>1. \A d \in QCores : Pending(d)' = Pending(d)
    <3>1. Pending(c)' = Pending(c) BY <1>2, <1>5, <1>8, <1>16, <1>17 DEF Pending
    <3> QED BY <1>14, <3>1 DEF Pending, Apart
  <2>2. qelem'[e].aggr = qelem[e].aggr BY <1>7, <1>11
  <2>3. qelem[e].aggr # <<>> =>
          /\ e \notin qpool'
          /\ StageOf(e)' = "kids" \/ ((Sends(e)' <=> Sends(e)) /\ StageOf(e) # "kids")
    BY <1>3, <1>5, <1>7, <1>11, <1>15 DEF Sends
  <2> QED BY <1>3, <1>14, <2>1, <2>2, <2>3, TreeSame
<1>23. CountInv'
  <2>1. e \in Counted /\ e \in Counted' BY <1>3, <1>8, <1>14, <1>15 DEF Counted
  <2>2. c \notin Uncounts /\ c \notin Uncounts'
    BY <1>2, <1>8, <1>16, <1>17 DEF Uncounts
  <2>3. qcount' = qcount BY <1>9
  <2> QED BY <1>3, <1>4, <1>14, <2>1, <2>2, <2>3, CountMoves
<1>24. ListInv'
  <2>1. listed \in SUBSET Elems BY DEF QInv, QTypeInv
  <2>2. IsFiniteSet(listed) BY <2>1, SetsAre, FS_Subset
  <2>3. Cardinality(listed \cup {e}) = Cardinality(listed) + 1 BY <1>5, <2>2, FS_AddElement
  <2> QED BY <1>9, <2>3 DEF QInv, ListInv
<1>25. OutInv'
  <2>1. OutAt(e)' = OutAt(e)
    BY <1>3, <1>5, <1>7, <1>8, <1>11, <1>14, <1>15 DEF OutAt
  <2>2. qelem'[e].idx = qelem[e].idx BY <1>7, <1>11
  <2> QED BY <1>3, <1>9, <1>14, <2>1, <2>2, OutSame
<1>26. prioMap' = prioMap BY <1>9
<1> QED
  BY <1>3, <1>14, <1>18, <1>19, <1>20, <1>21, <1>22, <1>23, <1>24, <1>25, <1>26, OneQueue

\* The queue is taken off the list of its EO.
LEMMA RemFromListStep ==
  ASSUME QInv, NEW c \in QCores, RemFromList(c)
  PROVE  QInv'
<1>1. PICK e : e = qcall[c].e OBVIOUS
<1>2. qcall[c].stage = "unlist" /\ qcall[c].e = e BY <1>1 DEF RemFromList
<1>3. /\ e \in Queues /\ e \in Elems /\ e \in Used /\ e \notin qpool /\ e # NoQueue /\ e \notin AggrQ
      /\ StageOf(e) = "unlist" /\ qelem[e] \in Elem /\ qcall[c] \in Call /\ CallOK(c) /\ QueueOK(e)
  BY <1>1, <1>2, InCall
<1>4. /\ qelem \in [Elems -> Elem] /\ odpQueue \in [Elems -> OdpSt]
      /\ node \in [Elems -> {"zero", "in", "self"}] /\ outCount \in Int /\ qcount \in Int /\ numQueues \in Int
      /\ qcall[c].n \in 0..MaxAggr /\ Len(qelem[e].aggr) \in Nat
  BY <1>3, LenProperties DEF QInv, QTypeInv, Elem, Call
<1>5. /\ qelem[e].type = "sched" /\ e \notin half /\ e \in listed /\ node[e] = "in"
      /\ odpQueue[e] # "none" /\ qelem[e].parent = NoQueue /\ qcall[c].type = "sched"
      /\ qcall[c].n = Len(qelem[e].aggr)
  BY <1>2, <1>3 DEF QueueOK, NoOdpAt, CallOK
<1>6. PICK x : x = qelem[e] OBVIOUS
<1>7. /\ x.type = qelem[e].type /\ x.aggr = qelem[e].aggr /\ x.parent = qelem[e].parent
      /\ x.idx = qelem[e].idx /\ x.st = qelem[e].st
      /\ x \in Elem
  BY <1>3, <1>5, <1>6 DEF Elem, QTypes, States
<1>8. PICK s : s = "destroy" OBVIOUS
<1>9. /\ qelem' = qelem
      /\ UNCHANGED <<qpool, odpQueue, qcount, outCount, idxFree, half, qops, prioMap>>
      /\ listed' = listed \ {e} /\ numQueues' = numQueues - 1 /\ node' = [node EXCEPT ![e] = "self"]
      /\ nullNode' = (nullNode \/ node[e] = "zero")
  BY <1>1, <1>2, <1>3, <1>4, <1>5, <1>6 DEF RemFromList, history, qshared
<1>10. To(c, s) /\ s # "none" BY <1>1, <1>2, <1>3, <1>4, <1>5, <1>8 DEF RemFromList
<1>11. /\ qelem'[e] = x /\ odpQueue'[e] = odpQueue[e]
       /\ \A f \in Elems : f # e => qelem'[f] = qelem[f] /\ odpQueue'[f] = odpQueue[f] /\ node'[f] = node[f]
  BY <1>3, <1>4, <1>6, <1>9
<1>12. Others(e) BY <1>9, <1>11 DEF Others
<1>13. s \in Stages BY <1>8 DEF Stages
<1>14. /\ qcall' \in [QCores -> Call] /\ OneCall' /\ Apart(e, QCores \ {c}) /\ StageOf(e)' = s
       /\ s = "none" => qcall'[c] = NoQCall
       /\ s # "none" => qcall'[c] = [qcall[c] EXCEPT !.stage = s]
  BY <1>2, <1>3, <1>10, <1>12, <1>13, ToMoves
<1>15. e \in Used' /\ e \notin qpool' BY <1>3, <1>9 DEF Used
<1>16. s # "none" => /\ qcall'[c].stage = s /\ qcall'[c].e = e /\ qcall'[c].type = qcall[c].type
                     /\ qcall'[c].n = qcall[c].n /\ qcall'[c].kids = qcall[c].kids
  BY <1>2, <1>3, <1>14 DEF Call
<1>17. s = "none" => qcall'[c].stage = "none" BY <1>14 DEF NoQCall
<1>18. QTypeInv'
  <2>1. qelem' \in [Elems -> Elem] BY <1>3, <1>4, <1>7, <1>9
  <2>2. odpQueue' \in [Elems -> OdpSt] BY <1>3, <1>4, <1>9, <1>11 DEF OdpSt
  <2>4. idxFree \in [0..MaxOutput - 1 -> BOOLEAN] BY DEF QInv, QTypeInv
  <2>5. idxFree' \in [0..MaxOutput - 1 -> BOOLEAN] BY <1>9, <2>4
  <2>3. /\ outCount' \in Int /\ numQueues' \in Int /\ node' \in [Elems -> {"zero", "in", "self"}]
        /\ idxFree' \in [0..MaxOutput - 1 -> BOOLEAN] /\ nullNode' \in BOOLEAN
        /\ listed' \in SUBSET Elems /\ half' \in SUBSET Elems
    BY <1>3, <1>4, <1>7, <1>9, <2>5 DEF QInv, QTypeInv
  <2> QED BY <1>4, <1>9, <1>14, <2>1, <2>2, <2>3 DEF QInv, QTypeInv
<1>19. InPoolOK(e)' BY <1>15 DEF InPoolOK
<1>20. QueueOK(e)'
  BY <1>3, <1>4, <1>5, <1>7, <1>8, <1>9, <1>11, <1>14, <1>15 DEF QueueOK, NoOdpAt
<1>21. CallOK(c)'
  <2>1. CASE s = "none" BY <1>14, <2>1 DEF CallOK, NoQCall
  <2>2. CASE s # "none"
    <3>1. qelem'[e].type = qelem[e].type /\ qelem'[e].aggr = qelem[e].aggr BY <1>7, <1>11
    <3> QED BY <1>2, <1>3, <1>4, <1>5, <1>8, <1>15, <1>16, <2>2, <3>1 DEF CallOK
  <2> QED BY <2>1, <2>2
<1>22. TreeInv'
  <2>1. \A d \in QCores : Pending(d)' = Pending(d)
    <3>1. Pending(c)' = Pending(c) BY <1>2, <1>5, <1>8, <1>16, <1>17 DEF Pending
    <3> QED BY <1>14, <3>1 DEF Pending, Apart
  <2>2. qelem'[e].aggr = qelem[e].aggr BY <1>7, <1>11
  <2>3. qelem[e].aggr # <<>> =>
          /\ e \notin qpool'
          /\ StageOf(e)' = "kids" \/ ((Sends(e)' <=> Sends(e)) /\ StageOf(e) # "kids")
    BY <1>3, <1>5, <1>7, <1>11, <1>15 DEF Sends
  <2> QED BY <1>3, <1>14, <2>1, <2>2, <2>3, TreeSame
<1>23. CountInv'
  <2>1. e \in Counted /\ e \in Counted' BY <1>3, <1>8, <1>14, <1>15 DEF Counted
  <2>2. c \notin Uncounts /\ c \notin Uncounts'
    BY <1>2, <1>8, <1>16, <1>17 DEF Uncounts
  <2>3. qcount' = qcount BY <1>9
  <2> QED BY <1>3, <1>4, <1>14, <2>1, <2>2, <2>3, CountMoves
<1>24. ListInv'
  <2>1. listed \in SUBSET Elems BY DEF QInv, QTypeInv
  <2>2. IsFiniteSet(listed) BY <2>1, SetsAre, FS_Subset
  <2>3. Cardinality(listed \ {e}) = Cardinality(listed) - 1 BY <1>5, <2>2, FS_RemoveElement
  <2> QED BY <1>5, <1>9, <2>3 DEF QInv, ListInv
<1>25. OutInv'
  <2>1. OutAt(e)' = OutAt(e)
    BY <1>3, <1>5, <1>7, <1>8, <1>11, <1>14, <1>15 DEF OutAt
  <2>2. qelem'[e].idx = qelem[e].idx BY <1>7, <1>11
  <2> QED BY <1>3, <1>9, <1>14, <2>1, <2>2, OutSame
<1>26. prioMap' = prioMap BY <1>9
<1> QED
  BY <1>3, <1>14, <1>18, <1>19, <1>20, <1>21, <1>22, <1>23, <1>24, <1>25, <1>26, OneQueue

\* The events of an output queue that is deleted are drained.
LEMMA DrainOutputStep ==
  ASSUME QInv, NEW c \in QCores, DrainOutput(c)
  PROVE  QInv'
<1>1. PICK e : e = qcall[c].e OBVIOUS
<1>2. qcall[c].stage = "drain" /\ qcall[c].e = e BY <1>1 DEF DrainOutput
<1>3. /\ e \in Queues /\ e \in Elems /\ e \in Used /\ e \notin qpool /\ e # NoQueue /\ e \notin AggrQ
      /\ StageOf(e) = "drain" /\ qelem[e] \in Elem /\ qcall[c] \in Call /\ CallOK(c) /\ QueueOK(e)
  BY <1>1, <1>2, InCall
<1>4. /\ qelem \in [Elems -> Elem] /\ odpQueue \in [Elems -> OdpSt]
      /\ node \in [Elems -> {"zero", "in", "self"}] /\ outCount \in Int /\ qcount \in Int /\ numQueues \in Int
      /\ qcall[c].n \in 0..MaxAggr /\ Len(qelem[e].aggr) \in Nat
  BY <1>3, LenProperties DEF QInv, QTypeInv, Elem, Call
<1>5. /\ qelem[e].type = "output" /\ e \notin half /\ e \notin listed /\ qelem[e].aggr = <<>>
      /\ odpQueue[e] # "none" /\ qelem[e].parent = NoQueue /\ qcall[c].type = "output"
      /\ qcall[c].n = Len(qelem[e].aggr)
  BY <1>2, <1>3 DEF QueueOK, NoOdpAt, CallOK
<1>6. PICK x : x = qelem[e] OBVIOUS
<1>7. /\ x.type = qelem[e].type /\ x.aggr = qelem[e].aggr /\ x.parent = qelem[e].parent
      /\ x.idx = qelem[e].idx /\ x.st = qelem[e].st
      /\ x \in Elem
  BY <1>3, <1>5, <1>6 DEF Elem, QTypes, States
<1>8. PICK s : s = "destroy" OBVIOUS
<1>9. /\ qelem' = qelem
      /\ UNCHANGED <<qpool, qcount, listed, numQueues, node, nullNode, half, qops, prioMap>>
      /\ odpQueue' = [odpQueue EXCEPT ![e] = "empty"]
      /\ idxFree' = [idxFree EXCEPT ![qelem[e].idx] = TRUE] /\ outCount' = outCount - 1
  BY <1>1, <1>2, <1>3, <1>4, <1>5, <1>6 DEF DrainOutput, history, qshared
<1>10. To(c, s) /\ s # "none" BY <1>1, <1>2, <1>3, <1>4, <1>5, <1>8 DEF DrainOutput
<1>11. /\ qelem'[e] = x /\ odpQueue'[e] = "empty"
       /\ \A f \in Elems : f # e => qelem'[f] = qelem[f] /\ odpQueue'[f] = odpQueue[f] /\ node'[f] = node[f]
  BY <1>3, <1>4, <1>6, <1>9
<1>12. Others(e) BY <1>9, <1>11 DEF Others
<1>13. s \in Stages BY <1>8 DEF Stages
<1>14. /\ qcall' \in [QCores -> Call] /\ OneCall' /\ Apart(e, QCores \ {c}) /\ StageOf(e)' = s
       /\ s = "none" => qcall'[c] = NoQCall
       /\ s # "none" => qcall'[c] = [qcall[c] EXCEPT !.stage = s]
  BY <1>2, <1>3, <1>10, <1>12, <1>13, ToMoves
<1>15. e \in Used' /\ e \notin qpool' BY <1>3, <1>9 DEF Used
<1>16. s # "none" => /\ qcall'[c].stage = s /\ qcall'[c].e = e /\ qcall'[c].type = qcall[c].type
                     /\ qcall'[c].n = qcall[c].n /\ qcall'[c].kids = qcall[c].kids
  BY <1>2, <1>3, <1>14 DEF Call
<1>17. s = "none" => qcall'[c].stage = "none" BY <1>14 DEF NoQCall
<1>18. QTypeInv'
  <2>1. qelem' \in [Elems -> Elem] BY <1>3, <1>4, <1>7, <1>9
  <2>2. odpQueue' \in [Elems -> OdpSt] BY <1>3, <1>4, <1>9, <1>11 DEF OdpSt
  <2>4. idxFree \in [0..MaxOutput - 1 -> BOOLEAN] BY DEF QInv, QTypeInv
  <2>5. idxFree' \in [0..MaxOutput - 1 -> BOOLEAN] BY <1>9, <2>4
  <2>3. /\ outCount' \in Int /\ numQueues' \in Int /\ node' \in [Elems -> {"zero", "in", "self"}]
        /\ idxFree' \in [0..MaxOutput - 1 -> BOOLEAN] /\ nullNode' \in BOOLEAN
        /\ listed' \in SUBSET Elems /\ half' \in SUBSET Elems
    BY <1>3, <1>4, <1>7, <1>9, <2>5 DEF QInv, QTypeInv
  <2> QED BY <1>4, <1>9, <1>14, <2>1, <2>2, <2>3 DEF QInv, QTypeInv
<1>19. InPoolOK(e)' BY <1>15 DEF InPoolOK
<1>20. QueueOK(e)'
  BY <1>3, <1>4, <1>5, <1>7, <1>8, <1>9, <1>11, <1>14, <1>15 DEF QueueOK, NoOdpAt
<1>21. CallOK(c)'
  <2>1. CASE s = "none" BY <1>14, <2>1 DEF CallOK, NoQCall
  <2>2. CASE s # "none"
    <3>1. qelem'[e].type = qelem[e].type /\ qelem'[e].aggr = qelem[e].aggr BY <1>7, <1>11
    <3> QED BY <1>2, <1>3, <1>4, <1>5, <1>8, <1>15, <1>16, <2>2, <3>1 DEF CallOK
  <2> QED BY <2>1, <2>2
<1>22. TreeInv'
  <2>1. \A d \in QCores : Pending(d)' = Pending(d)
    <3>1. Pending(c)' = Pending(c) BY <1>2, <1>5, <1>8, <1>16, <1>17 DEF Pending
    <3> QED BY <1>14, <3>1 DEF Pending, Apart
  <2>2. qelem'[e].aggr = qelem[e].aggr BY <1>7, <1>11
  <2>3. qelem[e].aggr # <<>> =>
          /\ e \notin qpool'
          /\ StageOf(e)' = "kids" \/ ((Sends(e)' <=> Sends(e)) /\ StageOf(e) # "kids")
    BY <1>3, <1>5, <1>7, <1>11, <1>15 DEF Sends
  <2> QED BY <1>3, <1>14, <2>1, <2>2, <2>3, TreeSame
<1>23. CountInv'
  <2>1. e \in Counted /\ e \in Counted' BY <1>3, <1>8, <1>14, <1>15 DEF Counted
  <2>2. c \notin Uncounts /\ c \notin Uncounts'
    BY <1>2, <1>8, <1>16, <1>17 DEF Uncounts
  <2>3. qcount' = qcount BY <1>9
  <2> QED BY <1>3, <1>4, <1>14, <2>1, <2>2, <2>3, CountMoves
<1>24. ListInv'
  BY <1>9 DEF QInv, ListInv
<1>25. OutInv'
  <2>1. /\ Shift(OutAll, OutAll', e) /\ Shift(OutNow, OutNow', e)
        /\ \A f \in Elems : f # e => qelem'[f] = qelem[f] /\ (f \in Holding' <=> f \in Holding)
    BY <1>3, <1>14, OutMoves
  <2>2. OutInv BY DEF QInv
  <2>3. OutAt(e) = "holds" /\ OutAt(e)' = "no"
    BY <1>3, <1>5, <1>7, <1>8, <1>11, <1>14, <1>15 DEF OutAt
  <2>4. /\ e \in OutAll /\ e \in OutNow /\ e \in Holding
        /\ e \notin OutAll' /\ e \notin OutNow' /\ e \notin Holding'
    BY <1>3, <2>3 DEF OutAll, OutNow, Holding
  <2>5. outCount' = Cardinality(OutAll') BY <1>9, <2>1, <2>2, <2>4 DEF OutInv, Shift
  <2>6. Cardinality(OutNow') <= MaxOutput BY <2>1, <2>2, <2>4, SetsAre DEF OutInv, Shift
  <2>7. \A f \in Holding' : f # e /\ f \in Holding /\ qelem'[f].idx = qelem[f].idx /\ qelem[f].idx # qelem[e].idx
    BY <2>1, <2>2, <2>4 DEF OutInv, Holding
  <2>8. \A f, g \in Holding' : qelem'[f].idx = qelem'[g].idx => f = g
    BY <2>2, <2>7 DEF OutInv
  <2>9. ASSUME NEW i \in 0..MaxOutput - 1
        PROVE  idxFree'[i] <=> \A f \in Holding' : qelem'[f].idx # i
    <3>1. idxFree[i] <=> \A f \in Holding : qelem[f].idx # i BY <2>2 DEF OutInv
    <3>2. idxFree \in [0..MaxOutput - 1 -> BOOLEAN] BY DEF QInv, QTypeInv
    <3>3. CASE i = qelem[e].idx BY <1>9, <2>7, <3>2, <3>3
    <3>4. CASE i # qelem[e].idx
      <4>1. idxFree'[i] <=> idxFree[i] BY <1>9, <3>2, <3>4
      <4>2. \A f \in Holding : f # e => f \in Holding' /\ qelem'[f].idx = qelem[f].idx
        BY <2>1 DEF Holding
      <4> QED BY <2>7, <3>1, <3>4, <4>1, <4>2
    <3> QED BY <3>3, <3>4
  <2> QED BY <2>5, <2>6, <2>8, <2>9 DEF OutInv
<1>26. prioMap' = prioMap BY <1>9
<1> QED
  BY <1>3, <1>14, <1>18, <1>19, <1>20, <1>21, <1>22, <1>23, <1>24, <1>25, <1>26, OneQueue

\* odp_queue_destroy() succeeds, or fails.
DestroyDone(c) ==
  /\ qcall[c].stage = "destroy" /\ odpQueue[qcall[c].e] # "events"
  /\ To(c, IF qcall[c].n > 0 THEN "freeaggr" ELSE "free")
  /\ odpQueue' = [odpQueue EXCEPT ![qcall[c].e] = "none"]
  /\ qelem' = [qelem EXCEPT ![qcall[c].e].odp = FALSE]
  /\ UNCHANGED <<half, qpool, qcount, qshared, qops, prioMap>>
OdpKept(c) ==
  /\ qcall[c].stage = "destroy" /\ odpQueue[qcall[c].e] = "events"
  /\ Return(c) /\ half' = half \cup {qcall[c].e}
  /\ UNCHANGED <<odpQueue, qelem, qpool, qcount, qshared, qops, prioMap>>

\* odp_queue_destroy() is done.
LEMMA DestroyDoneStep ==
  ASSUME QInv, NEW c \in QCores, DestroyDone(c)
  PROVE  QInv'
<1>1. PICK e : e = qcall[c].e OBVIOUS
<1>2. qcall[c].stage = "destroy" /\ qcall[c].e = e BY <1>1 DEF DestroyDone
<1>3. /\ e \in Queues /\ e \in Elems /\ e \in Used /\ e \notin qpool /\ e # NoQueue /\ e \notin AggrQ
      /\ StageOf(e) = "destroy" /\ qelem[e] \in Elem /\ qcall[c] \in Call /\ CallOK(c) /\ QueueOK(e)
  BY <1>1, <1>2, InCall
<1>4. /\ qelem \in [Elems -> Elem] /\ odpQueue \in [Elems -> OdpSt]
      /\ node \in [Elems -> {"zero", "in", "self"}] /\ outCount \in Int /\ qcount \in Int /\ numQueues \in Int
      /\ qcall[c].n \in 0..MaxAggr /\ Len(qelem[e].aggr) \in Nat
  BY <1>3, LenProperties DEF QInv, QTypeInv, Elem, Call
<1>5. /\ e \notin half /\ e \notin listed /\ qelem[e].aggr # <<>> => qelem[e].type \in {"sched", "unsched"}
      /\ qelem[e].type \in {"sched", "unsched", "output"} => odpQueue[e] # "none"
      /\ qelem[e].type = "output" => odpQueue[e] = "empty"
      /\ qelem[e].parent = NoQueue /\ qcall[c].type = qelem[e].type /\ qelem[e].type \notin {"undef", "aggr"}
      /\ Len(qelem[e].aggr) <= MaxAggr
      /\ qcall[c].n = Len(qelem[e].aggr)
      /\ qelem[e].aggr = <<>> <=> qcall[c].n = 0
  <2>1. qelem[e].aggr = <<>> <=> Len(qelem[e].aggr) = 0 BY <1>3, NoneIs DEF Elem
  <2> QED BY <1>2, <1>3, <2>1 DEF QueueOK, NoOdpAt, CallOK
<1>6. PICK x : x = [qelem[e] EXCEPT !.odp = FALSE] OBVIOUS
<1>7. /\ x.type = qelem[e].type /\ x.aggr = qelem[e].aggr /\ x.parent = qelem[e].parent
      /\ x.idx = qelem[e].idx /\ x.st = qelem[e].st
      /\ x \in Elem
  BY <1>3, <1>5, <1>6 DEF Elem, QTypes, States
<1>8. PICK s : s = IF qcall[c].n > 0 THEN "freeaggr" ELSE "free" OBVIOUS
<1>9. /\ qelem' = [qelem EXCEPT ![e] = x]
      /\ UNCHANGED <<qpool, qcount, outCount, idxFree, listed, numQueues, node, nullNode, half, qops, prioMap>>
      /\ odpQueue' = [odpQueue EXCEPT ![e] = "none"]
  BY <1>1, <1>2, <1>3, <1>4, <1>5, <1>6 DEF DestroyDone, history, qshared
<1>10. To(c, s) /\ s # "none" BY <1>1, <1>2, <1>3, <1>4, <1>5, <1>8 DEF DestroyDone
<1>11. /\ qelem'[e] = x /\ odpQueue'[e] = "none"
       /\ \A f \in Elems : f # e => qelem'[f] = qelem[f] /\ odpQueue'[f] = odpQueue[f] /\ node'[f] = node[f]
  BY <1>3, <1>4, <1>6, <1>9
<1>12. Others(e) BY <1>9, <1>11 DEF Others
<1>13. s \in Stages BY <1>8 DEF Stages
<1>14. /\ qcall' \in [QCores -> Call] /\ OneCall' /\ Apart(e, QCores \ {c}) /\ StageOf(e)' = s
       /\ s = "none" => qcall'[c] = NoQCall
       /\ s # "none" => qcall'[c] = [qcall[c] EXCEPT !.stage = s]
  BY <1>2, <1>3, <1>10, <1>12, <1>13, ToMoves
<1>15. e \in Used' /\ e \notin qpool' BY <1>3, <1>9 DEF Used
<1>16. s # "none" => /\ qcall'[c].stage = s /\ qcall'[c].e = e /\ qcall'[c].type = qcall[c].type
                     /\ qcall'[c].n = qcall[c].n /\ qcall'[c].kids = qcall[c].kids
  BY <1>2, <1>3, <1>14 DEF Call
<1>17. s = "none" => qcall'[c].stage = "none" BY <1>14 DEF NoQCall
<1>18. QTypeInv'
  <2>1. qelem' \in [Elems -> Elem] BY <1>3, <1>4, <1>7, <1>9
  <2>2. odpQueue' \in [Elems -> OdpSt] BY <1>3, <1>4, <1>9, <1>11 DEF OdpSt
  <2>4. idxFree \in [0..MaxOutput - 1 -> BOOLEAN] BY DEF QInv, QTypeInv
  <2>5. idxFree' \in [0..MaxOutput - 1 -> BOOLEAN] BY <1>9, <2>4
  <2>3. /\ outCount' \in Int /\ numQueues' \in Int /\ node' \in [Elems -> {"zero", "in", "self"}]
        /\ idxFree' \in [0..MaxOutput - 1 -> BOOLEAN] /\ nullNode' \in BOOLEAN
        /\ listed' \in SUBSET Elems /\ half' \in SUBSET Elems
    BY <1>3, <1>4, <1>7, <1>9, <2>5 DEF QInv, QTypeInv
  <2> QED BY <1>4, <1>9, <1>14, <2>1, <2>2, <2>3 DEF QInv, QTypeInv
<1>19. InPoolOK(e)' BY <1>15 DEF InPoolOK
<1>20. QueueOK(e)'
  BY <1>3, <1>4, <1>5, <1>7, <1>8, <1>9, <1>11, <1>14, <1>15 DEF QueueOK, NoOdpAt
<1>21. CallOK(c)'
  <2>1. CASE s = "none" BY <1>14, <2>1 DEF CallOK, NoQCall
  <2>2. CASE s # "none"
    <3>1. qelem'[e].type = qelem[e].type /\ qelem'[e].aggr = qelem[e].aggr BY <1>7, <1>11
    <3> QED BY <1>2, <1>3, <1>4, <1>5, <1>8, <1>15, <1>16, <2>2, <3>1 DEF CallOK
  <2> QED BY <2>1, <2>2
<1>22. TreeInv'
  <2>1. \A d \in QCores : Pending(d)' = Pending(d)
    <3>1. Pending(c)' = Pending(c) BY <1>2, <1>5, <1>8, <1>16, <1>17 DEF Pending
    <3> QED BY <1>14, <3>1 DEF Pending, Apart
  <2>2. qelem'[e].aggr = qelem[e].aggr BY <1>7, <1>11
  <2>3. qelem[e].aggr # <<>> =>
          /\ e \notin qpool'
          /\ StageOf(e)' = "kids" \/ ((Sends(e)' <=> Sends(e)) /\ StageOf(e) # "kids")
    BY <1>3, <1>5, <1>7, <1>11, <1>15 DEF Sends
  <2> QED BY <1>3, <1>14, <2>1, <2>2, <2>3, TreeSame
<1>23. CountInv'
  <2>1. e \in Counted /\ e \in Counted' BY <1>3, <1>8, <1>14, <1>15 DEF Counted
  <2>2. c \notin Uncounts /\ c \notin Uncounts'
    BY <1>2, <1>8, <1>16, <1>17 DEF Uncounts
  <2>3. qcount' = qcount BY <1>9
  <2> QED BY <1>3, <1>4, <1>14, <2>1, <2>2, <2>3, CountMoves
<1>24. ListInv'
  BY <1>9 DEF QInv, ListInv
<1>25. OutInv'
  <2>1. OutAt(e)' = OutAt(e)
    BY <1>3, <1>5, <1>7, <1>8, <1>11, <1>14, <1>15 DEF OutAt
  <2>2. qelem'[e].idx = qelem[e].idx BY <1>7, <1>11
  <2> QED BY <1>3, <1>9, <1>14, <2>1, <2>2, OutSame
<1>26. prioMap' = prioMap BY <1>9
<1> QED
  BY <1>3, <1>14, <1>18, <1>19, <1>20, <1>21, <1>22, <1>23, <1>24, <1>25, <1>26, OneQueue

\* Or fails: the ODP queue stays.
LEMMA OdpKeptStep ==
  ASSUME QInv, NEW c \in QCores, OdpKept(c)
  PROVE  QInv'
<1>1. PICK e : e = qcall[c].e OBVIOUS
<1>2. qcall[c].stage = "destroy" /\ qcall[c].e = e BY <1>1 DEF OdpKept
<1>3. /\ e \in Queues /\ e \in Elems /\ e \in Used /\ e \notin qpool /\ e # NoQueue /\ e \notin AggrQ
      /\ StageOf(e) = "destroy" /\ qelem[e] \in Elem /\ qcall[c] \in Call /\ CallOK(c) /\ QueueOK(e)
  BY <1>1, <1>2, InCall
<1>4. /\ qelem \in [Elems -> Elem] /\ odpQueue \in [Elems -> OdpSt]
      /\ node \in [Elems -> {"zero", "in", "self"}] /\ outCount \in Int /\ qcount \in Int /\ numQueues \in Int
      /\ qcall[c].n \in 0..MaxAggr /\ Len(qelem[e].aggr) \in Nat
  BY <1>3, LenProperties DEF QInv, QTypeInv, Elem, Call
<1>5. /\ e \notin half /\ e \notin listed /\ qelem[e].aggr # <<>> => qelem[e].type \in {"sched", "unsched"}
      /\ qelem[e].type \in {"sched", "unsched", "output"} => odpQueue[e] # "none"
      /\ qelem[e].type = "output" => odpQueue[e] = "empty"
      /\ qelem[e].parent = NoQueue /\ qcall[c].type = qelem[e].type /\ qelem[e].type \notin {"undef", "aggr"}
      /\ Len(qelem[e].aggr) <= MaxAggr
      /\ qcall[c].n = Len(qelem[e].aggr)
      /\ odpQueue[e] = "events"
  BY <1>2, <1>3 DEF QueueOK, NoOdpAt, CallOK, OdpKept
<1>6. PICK x : x = qelem[e] OBVIOUS
<1>7. /\ x.type = qelem[e].type /\ x.aggr = qelem[e].aggr /\ x.parent = qelem[e].parent
      /\ x.idx = qelem[e].idx /\ x.st = qelem[e].st
      /\ x \in Elem
  BY <1>3, <1>5, <1>6 DEF Elem, QTypes, States
<1>8. PICK s : s = "none" OBVIOUS
<1>9. /\ qelem' = qelem
      /\ UNCHANGED <<qpool, odpQueue, qcount, outCount, idxFree, listed, numQueues, node, nullNode, qops, prioMap>>
      /\ half' = half \cup {e}
  BY <1>1, <1>2, <1>3, <1>4, <1>5, <1>6 DEF OdpKept, history, qshared
<1>10. Return(c) /\ s = "none" BY <1>1, <1>2, <1>3, <1>4, <1>5, <1>8 DEF OdpKept
<1>11. /\ qelem'[e] = x /\ odpQueue'[e] = odpQueue[e]
       /\ \A f \in Elems : f # e => qelem'[f] = qelem[f] /\ odpQueue'[f] = odpQueue[f] /\ node'[f] = node[f]
  BY <1>3, <1>4, <1>6, <1>9
<1>12. Others(e) BY <1>9, <1>11 DEF Others
<1>13. s \in Stages BY <1>8 DEF Stages
<1>14. /\ qcall' \in [QCores -> Call] /\ OneCall' /\ Apart(e, QCores \ {c}) /\ StageOf(e)' = s
       /\ s = "none" => qcall'[c] = NoQCall
       /\ s # "none" => qcall'[c] = [qcall[c] EXCEPT !.stage = s]
  BY <1>2, <1>3, <1>10, <1>12, ReturnMoves
<1>15. e \in Used' /\ e \notin qpool' BY <1>3, <1>9 DEF Used
<1>16. s # "none" => /\ qcall'[c].stage = s /\ qcall'[c].e = e /\ qcall'[c].type = qcall[c].type
                     /\ qcall'[c].n = qcall[c].n /\ qcall'[c].kids = qcall[c].kids
  BY <1>2, <1>3, <1>14 DEF Call
<1>17. s = "none" => qcall'[c].stage = "none" BY <1>14 DEF NoQCall
<1>18. QTypeInv'
  <2>1. qelem' \in [Elems -> Elem] BY <1>3, <1>4, <1>7, <1>9
  <2>2. odpQueue' \in [Elems -> OdpSt] BY <1>3, <1>4, <1>9, <1>11 DEF OdpSt
  <2>4. idxFree \in [0..MaxOutput - 1 -> BOOLEAN] BY DEF QInv, QTypeInv
  <2>5. idxFree' \in [0..MaxOutput - 1 -> BOOLEAN] BY <1>9, <2>4
  <2>3. /\ outCount' \in Int /\ numQueues' \in Int /\ node' \in [Elems -> {"zero", "in", "self"}]
        /\ idxFree' \in [0..MaxOutput - 1 -> BOOLEAN] /\ nullNode' \in BOOLEAN
        /\ listed' \in SUBSET Elems /\ half' \in SUBSET Elems
    BY <1>3, <1>4, <1>7, <1>9, <2>5 DEF QInv, QTypeInv
  <2> QED BY <1>4, <1>9, <1>14, <2>1, <2>2, <2>3 DEF QInv, QTypeInv
<1>19. InPoolOK(e)' BY <1>15 DEF InPoolOK
<1>20. QueueOK(e)'
  BY <1>3, <1>4, <1>5, <1>7, <1>8, <1>9, <1>11, <1>14, <1>15 DEF QueueOK, NoOdpAt
<1>21. CallOK(c)'
  <2>1. CASE s = "none" BY <1>14, <2>1 DEF CallOK, NoQCall
  <2>2. CASE s # "none"
    <3>1. qelem'[e].type = qelem[e].type /\ qelem'[e].aggr = qelem[e].aggr BY <1>7, <1>11
    <3> QED BY <1>2, <1>3, <1>4, <1>5, <1>8, <1>15, <1>16, <2>2, <3>1 DEF CallOK
  <2> QED BY <2>1, <2>2
<1>22. TreeInv'
  <2>1. \A d \in QCores : Pending(d)' = Pending(d)
    <3>1. Pending(c)' = Pending(c) BY <1>2, <1>5, <1>8, <1>16, <1>17 DEF Pending
    <3> QED BY <1>14, <3>1 DEF Pending, Apart
  <2>2. qelem'[e].aggr = qelem[e].aggr BY <1>7, <1>11
  <2>3. qelem[e].aggr # <<>> =>
          /\ e \notin qpool'
          /\ StageOf(e)' = "kids" \/ ((Sends(e)' <=> Sends(e)) /\ StageOf(e) # "kids")
    BY <1>3, <1>5, <1>7, <1>11, <1>15 DEF Sends
  <2> QED BY <1>3, <1>14, <2>1, <2>2, <2>3, TreeSame
<1>23. CountInv'
  <2>1. e \in Counted /\ e \in Counted' BY <1>3, <1>8, <1>14, <1>15 DEF Counted
  <2>2. c \notin Uncounts /\ c \notin Uncounts'
    BY <1>2, <1>8, <1>16, <1>17 DEF Uncounts
  <2>3. qcount' = qcount BY <1>9
  <2> QED BY <1>3, <1>4, <1>14, <2>1, <2>2, <2>3, CountMoves
<1>24. ListInv'
  BY <1>9 DEF QInv, ListInv
<1>25. OutInv'
  <2>1. OutAt(e)' = OutAt(e)
    BY <1>3, <1>5, <1>7, <1>8, <1>11, <1>14, <1>15 DEF OutAt
  <2>2. qelem'[e].idx = qelem[e].idx BY <1>7, <1>11
  <2> QED BY <1>3, <1>9, <1>14, <2>1, <2>2, OutSame
<1>26. prioMap' = prioMap BY <1>9
<1> QED
  BY <1>3, <1>14, <1>18, <1>19, <1>20, <1>21, <1>22, <1>23, <1>24, <1>25, <1>26, OneQueue

\* One of both.
LEMMA DestroyOdpStep ==
  ASSUME QInv, NEW c \in QCores, DestroyOdp(c)
  PROVE  QInv'
<1>1. DestroyDone(c) \/ OdpKept(c) BY DEF DestroyOdp, DestroyDone, OdpKept
<1> QED BY <1>1, DestroyDoneStep, OdpKeptStep

-----------------------------------------------------------------------------
(* The calls that start and end, and the steps that no call makes *)

\* A queue that no call is on.
LEMMA StableIs ==
  ASSUME QInv, NEW e \in Stable
  PROVE  /\ e \in Queues /\ e \in Elems /\ e \in Used /\ e \notin qpool /\ e # NoQueue /\ e \notin AggrQ
         /\ StageOf(e) = "none" /\ ~QInCall(e) /\ QueueOK(e) /\ qelem[e] \in Elem
         /\ qelem[e].type \notin {"undef", "aggr"}
<1>1. e \in Elems /\ e \in Used /\ e \notin qpool /\ ~QInCall(e) /\ qelem[e].type \notin {"undef", "aggr"}
  BY DEF Stable, Used
<1>2. ElemOK(e) BY <1>1 DEF QInv, ElemsInv
<1>3. e \in Queues /\ e \notin AggrQ BY <1>1, <1>2, SetsAre DEF ElemOK, AggrOK
<1>4. qelem[e] \in Elem BY <1>1 DEF QInv, QTypeInv
<1> QED BY <1>1, <1>2, <1>3, <1>4, SetsAre DEF ElemOK, StageOf

\* What the step of no call leaves.
LEMMA QuietIs ==
  ASSUME QInv, NEW e \in Queues, qcall' = qcall, Others(e), qpool' = qpool,
         qelem' = qelem \/ ~QInCall(e)
  PROVE  /\ OneCall' /\ Apart(e, QCores) /\ \A f \in Elems : StageOf(f)' = StageOf(f)
         /\ \A d \in QCores : Pending(d)' = Pending(d)
<1>1. \A f \in Elems : StageOf(f)' = StageOf(f) BY DEF StageOf, QInCall
<1>2. OneCall' BY DEF QInv, OneCall
<1>3. \A d \in QCores : qcall[d].e = e => qelem' = qelem BY DEF QInCall
<1>4. Apart(e, QCores) BY <1>1, <1>3 DEF Apart, Others
<1> QED BY <1>1, <1>2, <1>4 DEF Pending

\* A step on queue e alone.
LEMMA QuietQueue ==
  ASSUME QInv, NEW e \in Queues, Apart(e, QCores), OneCall', QTypeInv',
         InPoolOK(e)', QueueOK(e)', TreeInv', CountInv', ListInv', OutInv', prioMap' = prioMap
  PROVE  QInv'
<1>1. e \in Elems /\ e \notin AggrQ BY SetsAre
<1>2. ElemOK(e)' BY <1>1 DEF ElemOK, AggrOK
<1>3. \A f \in Elems : ElemOK(f)' BY <1>2, ApartKeeps
<1>4. \A d \in QCores : CallOK(d)' BY ApartKeeps
<1>5. PrioMapMonotone' BY DEF QInv, PrioMapMonotone
<1> QED BY <1>3, <1>4, <1>5 DEF QInv, ElemsInv, CallsInv

\* Events come and go in the ODP queue of an element, which is then a queue.
EventsMove(e) ==
  /\ odpQueue[e] \in {"empty", "events"}
  /\ odpQueue[e] = "empty" => ~QInCall(e) /\ qelem[e].type # "output"
  /\ odpQueue' = [odpQueue EXCEPT ![e] = IF odpQueue[e] = "empty" THEN "events" ELSE "empty"]
  /\ UNCHANGED <<qpool, qelem, qcount, qshared, qcall, history>>

\* Events come to a queue or leave it.
LEMMA EventsMoveStep ==
  ASSUME QInv, NEW e \in Elems, EventsMove(e)
  PROVE  QInv'
<1>1. ElemOK(e) BY DEF QInv, ElemsInv
<1>2. e \in Queues /\ e \notin qpool /\ e \in Used /\ e \notin AggrQ
  BY <1>1, SetsAre DEF ElemOK, AggrOK, InPoolOK, EventsMove, Used
<1>3. QueueOK(e) BY <1>1, <1>2 DEF ElemOK
<1>4. /\ UNCHANGED <<qpool, qelem, qcount, outCount, idxFree, listed, numQueues, node, nullNode, qcall,
                     half, qops, prioMap>>
      /\ odpQueue'[e] \in {"empty", "events"} /\ odpQueue' \in [Elems -> OdpSt]
      /\ \A f \in Elems : f # e => odpQueue'[f] = odpQueue[f]
      /\ odpQueue'[e] = "events" => ~QInCall(e) /\ qelem[e].type # "output"
  BY DEF EventsMove, qshared, history, QInv, QTypeInv, OdpSt
<1>5. Others(e) BY <1>4 DEF Others
<1>6. /\ OneCall' /\ Apart(e, QCores) /\ \A f \in Elems : StageOf(f)' = StageOf(f)
      /\ \A d \in QCores : Pending(d)' = Pending(d)
  BY <1>2, <1>4, <1>5, QuietIs
<1>7. Used' = Used BY <1>4 DEF Used
<1>8. QTypeInv' BY <1>4 DEF QInv, QTypeInv
<1>9. InPoolOK(e)' BY <1>2, <1>4 DEF InPoolOK
<1>10. QueueOK(e)'
  <2>1. odpQueue[e] \in {"empty", "events"} BY DEF EventsMove
  <2> QED BY <1>2, <1>3, <1>4, <1>6, <1>7, <2>1 DEF QueueOK
<1>11. TreeInv'
  <2>1. qelem[e].aggr # <<>> =>
          /\ e \notin qpool'
          /\ StageOf(e)' = "kids" \/ ((Sends(e)' <=> Sends(e)) /\ StageOf(e) # "kids")
    BY <1>2, <1>4, <1>6 DEF Sends
  <2>2. qelem'[e].aggr = qelem[e].aggr BY <1>4
  <2> QED BY <1>2, <1>6, <2>1, <2>2, TreeSame
<1>12. CountInv'
  <2>1. Counted' = Counted BY <1>6, <1>7 DEF Counted, Used
  <2>2. Uncounts' = Uncounts BY <1>4 DEF Uncounts
  <2> QED BY <1>4, <2>1, <2>2 DEF QInv, CountInv
<1>13. ListInv' BY <1>4 DEF QInv, ListInv
<1>14. OutInv'
  <2>1. OutAt(e)' = OutAt(e) BY <1>4, <1>6, <1>7 DEF OutAt
  <2> QED BY <1>4, <1>6, <2>1, OutSame
<1>15. prioMap' = prioMap BY <1>4
<1> QED
  BY <1>2, <1>6, <1>8, <1>9, <1>10, <1>11, <1>12, <1>13, <1>14, <1>15, QuietQueue

\* The state of a queue that no call is on changes, between those that accept
\* no events unless it has no aggregators.
StateMoves(e, st) ==
  /\ e \in Stable /\ st \in {"INIT", "BIND", "READY"} /\ qelem[e].st \in {"INIT", "BIND", "READY"}
  /\ qelem' = [qelem EXCEPT ![e].st = st]
  /\ qelem[e].aggr = <<>> \/ (st # "READY" /\ qelem[e].st # "READY")
  /\ UNCHANGED <<qpool, odpQueue, qcount, qshared, qcall, history>>

\* The state of a queue changes with its EO.
LEMMA StateMovesStep ==
  ASSUME QInv, NEW e \in Elems, NEW st, StateMoves(e, st)
  PROVE  QInv'
<1>1. /\ e \in Queues /\ e \in Used /\ e \notin qpool /\ e \notin AggrQ
      /\ StageOf(e) = "none" /\ ~QInCall(e) /\ QueueOK(e) /\ qelem[e] \in Elem
  BY StableIs DEF StateMoves
<1>2. PICK x : x = [qelem[e] EXCEPT !.st = st] OBVIOUS
<1>3. /\ x.type = qelem[e].type /\ x.aggr = qelem[e].aggr /\ x.parent = qelem[e].parent
      /\ x.idx = qelem[e].idx /\ x.st = st /\ x \in Elem
  BY <1>1, <1>2 DEF StateMoves, Elem, States
<1>4. /\ UNCHANGED <<qpool, odpQueue, qcount, outCount, idxFree, listed, numQueues, node, nullNode, qcall,
                     half, qops, prioMap>>
      /\ qelem' = [qelem EXCEPT ![e] = x]
  BY <1>2 DEF StateMoves, qshared, history
<1>5. qelem \in [Elems -> Elem] BY DEF QInv, QTypeInv
<1>6. qelem'[e] = x /\ \A f \in Elems : f # e => qelem'[f] = qelem[f] BY <1>4, <1>5
<1>7. Others(e) BY <1>4, <1>6 DEF Others
<1>8. /\ OneCall' /\ Apart(e, QCores) /\ \A f \in Elems : StageOf(f)' = StageOf(f)
      /\ \A d \in QCores : Pending(d)' = Pending(d)
  BY <1>1, <1>4, <1>7, QuietIs
<1>9. Used' = Used BY <1>4 DEF Used
<1>10. QTypeInv'
  <2>1. qelem' \in [Elems -> Elem] BY <1>3, <1>4, <1>5
  <2> QED BY <1>4, <2>1 DEF QInv, QTypeInv
<1>11. InPoolOK(e)' BY <1>1, <1>4 DEF InPoolOK
<1>12. QueueOK(e)' BY <1>1, <1>3, <1>4, <1>6, <1>8, <1>9 DEF QueueOK
<1>13. TreeInv'
  <2>1. qelem[e].aggr # <<>> =>
          /\ e \notin qpool'
          /\ StageOf(e)' = "kids" \/ ((Sends(e)' <=> Sends(e)) /\ StageOf(e) # "kids")
    BY <1>1, <1>3, <1>4, <1>6 DEF Sends, StateMoves
  <2>2. qelem'[e].aggr = qelem[e].aggr BY <1>3, <1>6
  <2> QED BY <1>1, <1>8, <2>1, <2>2, TreeSame
<1>14. CountInv'
  <2>1. Counted' = Counted BY <1>8, <1>9 DEF Counted, Used
  <2>2. Uncounts' = Uncounts BY <1>4 DEF Uncounts
  <2> QED BY <1>4, <2>1, <2>2 DEF QInv, CountInv
<1>15. ListInv' BY <1>4 DEF QInv, ListInv
<1>16. OutInv'
  <2>1. OutAt(e)' = OutAt(e) BY <1>3, <1>6, <1>8, <1>9 DEF OutAt
  <2>2. qelem'[e].idx = qelem[e].idx BY <1>3, <1>6
  <2> QED BY <1>4, <1>8, <2>1, <2>2, OutSame
<1>17. prioMap' = prioMap BY <1>4
<1> QED
  BY <1>1, <1>8, <1>10, <1>11, <1>12, <1>13, <1>14, <1>15, <1>16, <1>17, QuietQueue

\* An event is sent to a queue.
LEMMA SendToStep ==
  ASSUME QInv, NEW e \in Elems, SendTo(e)
  PROVE  QInv'
<1>1. PICK f : f = Target(e) OBVIOUS
<1>2. f \in Elems /\ odpQueue[f] = "empty" /\ ~QInCall(f) BY <1>1 DEF SendTo
<1>3. qelem[f].type # "output"
  <2>1. f \notin AggrQ BY <1>2 DEF QInv, ElemsInv, ElemOK, AggrOK
  <2>2. CASE qelem[e].type = "aggr"
    <3>1. e \in AggrQ /\ f = qelem[e].parent
      BY <1>1, <2>2, SetsAre DEF QInv, ElemsInv, ElemOK, QueueOK, Target
    <3>2. f \in Queues /\ f \in Used /\ e \in Kids(f)
      BY <1>2, <3>1, SetsAre DEF QInv, TreeInv, AggrIn
    <3>3. qelem[f].aggr # <<>> BY <3>2 DEF Kids, Set
    <3> QED BY <1>2, <3>2, <3>3 DEF QInv, ElemsInv, ElemOK, QueueOK
  <2>3. CASE qelem[e].type # "aggr" BY <1>1, <2>3 DEF SendTo, Accepts, Target
  <2> QED BY <2>2, <2>3
<1>4. EventsMove(f) BY <1>1, <1>2, <1>3 DEF EventsMove, SendTo
<1> QED BY <1>2, <1>4, EventsMoveStep

\* An event is taken from a queue.
LEMMA TakeFromStep ==
  ASSUME QInv, NEW e \in Elems, TakeFrom(e)
  PROVE  QInv'
<1>1. EventsMove(e) BY DEF EventsMove, TakeFrom
<1> QED BY <1>1, EventsMoveStep

\* An EO is given a queue, starts it or stops it.
LEMMA EoQueueStep ==
  ASSUME QInv, NEW e \in Elems, eo_add_queue(e) \/ eo_rem_queue(e)
  PROVE  QInv'
<1>1. StateMoves(e, "BIND") \/ StateMoves(e, "INIT") BY DEF StateMoves, eo_add_queue, eo_rem_queue
<1> QED BY <1>1, StateMovesStep

\* A core that is in no call starts one on a queue that no call is on.
LEMMA CallStarts ==
  ASSUME QInv, NEW c \in QCores, qcall[c] = NoQCall, NEW e \in Queues, StageOf(e) = "none",
         NEW r \in Call, r.e = e, qcall' = [qcall EXCEPT ![c] = r], Others(e), r.stage # "aggr"
  PROVE  /\ qcall' \in [QCores -> Call] /\ OneCall' /\ Apart(e, QCores \ {c}) /\ StageOf(e)' = r.stage
         /\ qcall'[c] = r /\ \A d \in QCores : Pending(d)' = Pending(d)
         /\ r.stage # "count" => c \notin Uncounts /\ c \notin Uncounts'
<1>1. qcall \in [QCores -> Call] BY DEF QInv, QTypeInv
<1>2. Moves(c, e, r) BY DEF Moves, Others, NoQCall
<1>3. OneCall' /\ Apart(e, QCores \ {c}) /\ StageOf(e)' = r.stage /\ qcall'[c] = r
  <2> HIDE DEF QInv
  <2> QED BY <1>2, ApartIs
<1>4. \A d \in QCores : Pending(d)' = Pending(d)
  BY <1>3 DEF Pending, NoQCall, Apart
<1>5. r.stage # "count" => c \notin Uncounts /\ c \notin Uncounts' BY <1>3 DEF Uncounts, NoQCall
<1> QED BY <1>1, <1>3, <1>4, <1>5

\* queue_alloc(): an element of the pool, or the one asked for.
LEMMA ElemAllocStep ==
  ASSUME QInv, NEW c \in QCores, NEW e \in Elems, NEW p \in Params, queue_alloc(c, e, p[1], p[2])
  PROVE  QInv'
<1>1. e \in Queues /\ e \in qpool /\ e # NoQueue /\ e \notin AggrQ BY SetsAre DEF queue_alloc, Queues
<1>2. InPoolOK(e) /\ QueueOK(e) BY <1>1 DEF QInv, ElemsInv, ElemOK
<1>3. /\ StageOf(e) = "none" /\ qelem[e].aggr = <<>> /\ qelem[e].parent = NoQueue /\ odpQueue[e] = "none"
      /\ e \notin half /\ e \notin listed
  BY <1>1, <1>2 DEF InPoolOK
<1>4. p[1] \in {"sched", "unsched", "local", "output", "pktin"} /\ p[2] \in 0..MaxAggr
  BY QueueAssumption
<1>5. PICK r : r = [NoQCall EXCEPT !.stage = "setup", !.e = e, !.type = p[1], !.n = p[2]] OBVIOUS
<1>6. r = [stage |-> "setup", e |-> e, type |-> p[1], n |-> p[2], kids |-> <<>>, st |-> "INVALID"]
  BY <1>5 DEF NoQCall
<1>7. r \in Call
  <2>1. <<>> \in Seq(AggrQ) OBVIOUS
  <2> QED BY <1>4, <1>6, <2>1 DEF Call, Stages, QTypes, States
<1>8. /\ qcall[c] = NoQCall /\ qcall' = [qcall EXCEPT ![c] = r] /\ AggrAllowed(p[1], p[2])
      /\ qpool' = qpool \ {e}
      /\ UNCHANGED <<qelem, odpQueue, qcount, outCount, idxFree, listed, numQueues, node, nullNode,
                     half, prioMap>>
  BY <1>5 DEF queue_alloc, qshared
<1>9. Others(e) BY <1>8 DEF Others
<1>10. /\ qcall' \in [QCores -> Call] /\ OneCall' /\ Apart(e, QCores \ {c}) /\ StageOf(e)' = "setup"
       /\ qcall'[c] = r /\ \A d \in QCores : Pending(d)' = Pending(d)
       /\ c \notin Uncounts /\ c \notin Uncounts'
  <2>1. r.e = e /\ r.stage = "setup" BY <1>6
  <2> QED BY ZenonT(40), <1>1, <1>3, <1>7, <1>8, <1>9, <2>1, CallStarts
<1>11. e \notin qpool' /\ e \in Used' BY <1>8 DEF Used
<1>12. QTypeInv' BY <1>8, <1>10 DEF QInv, QTypeInv
<1>13. InPoolOK(e)' BY <1>11 DEF InPoolOK
<1>14. QueueOK(e)' BY <1>2, <1>3, <1>8, <1>10, <1>11 DEF QueueOK, NoOdpAt
<1>15. CallOK(c)' BY <1>1, <1>4, <1>6, <1>8, <1>10, <1>11 DEF CallOK
<1>16. TreeInv'
  <2>1. qelem'[e].aggr = qelem[e].aggr BY <1>8
  <2> QED BY <1>1, <1>3, <1>10, <2>1, TreeSame
<1>17. CountInv'
  <2>1. e \notin Counted /\ e \notin Counted' BY <1>1, <1>10 DEF Counted, Used
  <2>2. qcount' = qcount /\ qcount \in Int BY <1>8 DEF QInv, QTypeInv
  <2> QED BY <1>10, <2>1, <2>2, CountMoves
<1>18. ListInv' BY <1>8 DEF QInv, ListInv
<1>19. OutInv'
  <2>1. OutAt(e) = "no" BY <1>1 DEF OutAt, Used
  <2>2. OutAt(e)' = "no" BY <1>10 DEF OutAt
  <2> QED BY <1>8, <1>10, <2>1, <2>2, OutSame
<1>20. prioMap' = prioMap BY <1>8
<1> QED
  BY <1>1, <1>10, <1>12, <1>13, <1>14, <1>15, <1>16, <1>17, <1>18, <1>19, <1>20, OneQueue

\* em_queue_delete() begins.
LEMMA DeleteStep ==
  ASSUME QInv, ~DeleteAgain, ~DeletePktin, NEW c \in QCores, NEW e \in Elems, em_queue_delete(c, e)
  PROVE  QInv'
<1>1. /\ e \in Queues /\ e \in Used /\ e \notin qpool /\ e # NoQueue /\ e \notin AggrQ
      /\ StageOf(e) = "none" /\ QueueOK(e) /\ qelem[e] \in Elem /\ qelem[e].type \notin {"undef", "aggr"}
  BY StableIs DEF em_queue_delete
<1>2. e \notin half /\ qelem[e].type \in {"sched", "unsched", "local", "output"}
  BY <1>1 DEF em_queue_delete, Elem, QTypes
<1>3. PICK s : s = IF qelem[e].type = "sched" THEN "unlist"
                   ELSE IF qelem[e].type = "output" THEN "drain" ELSE "destroy"
  OBVIOUS
<1>4. PICK r : r = [NoQCall EXCEPT !.e = e, !.type = qelem[e].type, !.n = Len(qelem[e].aggr), !.stage = s]
  OBVIOUS
<1>5. r = [stage |-> s, e |-> e, type |-> qelem[e].type, n |-> Len(qelem[e].aggr), kids |-> <<>>,
           st |-> "INVALID"]
  BY <1>4 DEF NoQCall
<1>6. r \in Call
  <2>1. <<>> \in Seq(AggrQ) OBVIOUS
  <2>2. Len(qelem[e].aggr) \in 0..MaxAggr
    <3>1. Len(qelem[e].aggr) \in Nat BY <1>1, LenProperties DEF Elem
    <3> QED BY <1>1, <3>1, SetsAre DEF QueueOK
  <2> QED BY <1>1, <1>2, <1>3, <1>5, <2>1, <2>2 DEF Call, Stages, QTypes, States
<1>7. /\ qcall[c] = NoQCall /\ qcall' = [qcall EXCEPT ![c] = r]
      /\ UNCHANGED <<qpool, qelem, odpQueue, qcount, outCount, idxFree, listed, numQueues, node, nullNode,
                     half, prioMap>>
  BY <1>2, <1>3, <1>4 DEF em_queue_delete, qshared, Lists
<1>8. Others(e) BY <1>7 DEF Others
<1>9. /\ qcall' \in [QCores -> Call] /\ OneCall' /\ Apart(e, QCores \ {c}) /\ StageOf(e)' = s
      /\ qcall'[c] = r /\ \A d \in QCores : Pending(d)' = Pending(d)
      /\ c \notin Uncounts /\ c \notin Uncounts'
  <2>1. r.e = e /\ r.stage = s /\ s \notin {"aggr", "count"} BY <1>3, <1>5
  <2> QED BY <1>1, <1>6, <1>7, <1>8, <2>1, CallStarts
<1>10. e \notin qpool' /\ Used' = Used BY <1>1, <1>7 DEF Used
<1>11. QTypeInv' BY <1>7, <1>9 DEF QInv, QTypeInv
<1>12. InPoolOK(e)' BY <1>10 DEF InPoolOK
<1>13. QueueOK(e)'
  BY <1>1, <1>2, <1>3, <1>7, <1>9, <1>10 DEF QueueOK, NoOdpAt
<1>14. CallOK(c)' BY <1>1, <1>3, <1>5, <1>7, <1>9, <1>10 DEF CallOK
<1>15. TreeInv'
  <2>1. qelem'[e].aggr = qelem[e].aggr /\ (Sends(e)' <=> Sends(e)) BY <1>7 DEF Sends
  <2> QED BY <1>1, <1>9, <1>10, <2>1, TreeSame
<1>16. CountInv'
  <2>1. e \in Counted /\ e \in Counted' BY <1>1, <1>3, <1>9, <1>10 DEF Counted
  <2>2. qcount' = qcount /\ qcount \in Int BY <1>7 DEF QInv, QTypeInv
  <2> QED BY <1>9, <2>1, <2>2, CountMoves
<1>17. ListInv' BY <1>7 DEF QInv, ListInv
<1>18. OutInv'
  <2>1. OutAt(e)' = OutAt(e) BY <1>1, <1>3, <1>7, <1>9, <1>10 DEF OutAt
  <2> QED BY <1>7, <1>9, <2>1, OutSame
<1>19. prioMap' = prioMap BY <1>7
<1> QED
  BY <1>1, <1>9, <1>11, <1>12, <1>13, <1>14, <1>15, <1>16, <1>17, <1>18, <1>19, OneQueue

\* queue_state_set() of a queue with aggregators: the call goes on to them.
LEMMA StateSetStep ==
  ASSUME QInv, NEW c \in QCores, NEW e \in Elems, NEW st \in {"READY", "BIND"}, queue_state_set(c, e, st)
  PROVE  QInv'
<1>1. /\ e \in Queues /\ e \in Used /\ e \notin qpool /\ e # NoQueue /\ e \notin AggrQ
      /\ StageOf(e) = "none" /\ QueueOK(e) /\ qelem[e] \in Elem /\ ~QInCall(e)
  BY StableIs DEF queue_state_set
<1>2. CASE qelem[e].aggr = <<>>
  <2>1. StateMoves(e, st) BY <1>2 DEF StateMoves, queue_state_set, history
  <2> QED BY <2>1, StateMovesStep
<1>3. CASE qelem[e].aggr # <<>>
  <2>1. PICK r : r = [NoQCall EXCEPT !.stage = "kids", !.e = e, !.st = st] OBVIOUS
  <2>2. r = [stage |-> "kids", e |-> e, type |-> "none", n |-> 0, kids |-> <<>>, st |-> st]
    BY <2>1 DEF NoQCall
  <2>3. r \in Call
    <3>1. <<>> \in Seq(AggrQ) OBVIOUS
    <3> QED BY <1>1, <2>2, <3>1, SetsAre DEF Call, Stages, States
  <2>4. PICK x : x = [qelem[e] EXCEPT !.st = st] OBVIOUS
  <2>5. /\ x.type = qelem[e].type /\ x.aggr = qelem[e].aggr /\ x.parent = qelem[e].parent
        /\ x.idx = qelem[e].idx /\ x.st = st /\ x \in Elem
    BY <1>1, <2>4 DEF Elem, States
  <2>6. /\ qcall[c] = NoQCall /\ qcall' = [qcall EXCEPT ![c] = r] /\ qelem' = [qelem EXCEPT ![e] = x]
        /\ UNCHANGED <<qpool, odpQueue, qcount, outCount, idxFree, listed, numQueues, node, nullNode,
                       half, qops, prioMap>>
    BY <1>3, <2>1, <2>4 DEF queue_state_set, qshared, history
  <2>7. qelem \in [Elems -> Elem] BY DEF QInv, QTypeInv
  <2>8. qelem'[e] = x /\ \A f \in Elems : f # e => qelem'[f] = qelem[f] BY <2>6, <2>7
  <2>9. Others(e) BY <2>6, <2>8 DEF Others
  <2>10. /\ qcall' \in [QCores -> Call] /\ OneCall' /\ Apart(e, QCores \ {c}) /\ StageOf(e)' = "kids"
         /\ qcall'[c] = r /\ \A d \in QCores : Pending(d)' = Pending(d)
         /\ c \notin Uncounts /\ c \notin Uncounts'
    <3>1. r.e = e /\ r.stage = "kids" BY <2>2
    <3> QED BY <1>1, <2>3, <2>6, <2>9, <3>1, CallStarts
  <2>11. e \notin qpool' /\ Used' = Used BY <1>1, <2>6 DEF Used
  <2>12. QTypeInv'
    <3>1. qelem' \in [Elems -> Elem] BY <2>5, <2>6, <2>7
    <3> QED BY <2>6, <2>10, <3>1 DEF QInv, QTypeInv
  <2>13. InPoolOK(e)' BY <2>11 DEF InPoolOK
  <2>14. QueueOK(e)' BY <1>1, <1>3, <2>5, <2>6, <2>8, <2>10, <2>11 DEF QueueOK, NoOdpAt
  <2>15. CallOK(c)' BY <1>1, <2>2, <2>5, <2>8, <2>10, <2>11 DEF CallOK
  <2>16. TreeInv'
    <3>1. qelem'[e].aggr = qelem[e].aggr BY <2>5, <2>8
    <3> QED BY <1>1, <2>10, <2>11, <3>1, TreeSame
  <2>17. CountInv'
    <3>1. e \in Counted /\ e \in Counted' BY <1>1, <2>10, <2>11 DEF Counted
    <3>2. qcount' = qcount /\ qcount \in Int BY <2>6 DEF QInv, QTypeInv
    <3> QED BY <2>10, <3>1, <3>2, CountMoves
  <2>18. ListInv' BY <2>6 DEF QInv, ListInv
  <2>19. OutInv'
    <3>1. qelem[e].type # "output" BY <1>1, <1>3 DEF QueueOK
    <3>2. OutAt(e) = "no" /\ OutAt(e)' = "no" BY <2>5, <2>8, <3>1 DEF OutAt
    <3> QED BY <2>6, <2>10, <3>2, OutSame
  <2>20. prioMap' = prioMap BY <2>6
  <2> QED
    BY <1>1, <2>10, <2>12, <2>13, <2>14, <2>15, <2>16, <2>17, <2>18, <2>19, <2>20, OneQueue
<1> QED BY <1>2, <1>3

\* queue_free()
LEMMA ElemFreeStep ==
  ASSUME QInv, NEW c \in QCores, queue_free(c)
  PROVE  QInv'
<1>1. PICK e : e = qcall[c].e OBVIOUS
<1>2. qcall[c].stage = "free" /\ qcall[c].e = e BY <1>1 DEF queue_free
<1>3. /\ e \in Queues /\ e \in Elems /\ e \in Used /\ e \notin qpool /\ e # NoQueue /\ e \notin AggrQ
      /\ StageOf(e) = "free" /\ qelem[e] \in Elem /\ qcall[c] \in Call /\ CallOK(c) /\ QueueOK(e)
  BY <1>1, <1>2, InCall
<1>4. /\ qelem[e].aggr = <<>> /\ qelem[e].parent = NoQueue /\ odpQueue[e] = "none"
      /\ e \notin half /\ e \notin listed /\ qelem[e].type # "aggr"
  BY <1>3 DEF QueueOK, NoOdpAt
<1>5. PICK r : r = [NoQCall EXCEPT !.stage = "count"] OBVIOUS
<1>6. r = [stage |-> "count", e |-> NoQueue, type |-> "none", n |-> 0, kids |-> <<>>, st |-> "INVALID"]
  BY <1>5 DEF NoQCall
<1>7. r \in Call
  <2>1. <<>> \in Seq(AggrQ) OBVIOUS
  <2> QED BY <1>6, <2>1, SetsAre DEF Call, Stages, States
<1>8. PICK x : x = [qelem[e] EXCEPT !.st = "INVALID"] OBVIOUS
<1>9. /\ x.type = qelem[e].type /\ x.aggr = qelem[e].aggr /\ x.parent = qelem[e].parent
      /\ x.idx = qelem[e].idx /\ x.st = "INVALID" /\ x \in Elem
  BY <1>3, <1>8 DEF Elem, States
<1>10. /\ qcall' = [qcall EXCEPT ![c] = r] /\ qelem' = [qelem EXCEPT ![e] = x]
       /\ qpool' = qpool \cup {e} /\ half' = half \ {e}
       /\ UNCHANGED <<odpQueue, qcount, outCount, idxFree, listed, numQueues, node, nullNode, qops, prioMap>>
  BY <1>1, <1>5, <1>8 DEF queue_free, qshared
<1>11. qelem \in [Elems -> Elem] /\ qcall \in [QCores -> Call] BY DEF QInv, QTypeInv
<1>12. qelem'[e] = x /\ \A f \in Elems : f # e => qelem'[f] = qelem[f] BY <1>3, <1>10, <1>11
<1>13. Moves(c, e, r) BY <1>2, <1>6, <1>10, <1>12 DEF Moves
<1>14. OneCall' /\ Apart(e, QCores \ {c}) /\ StageOf(e)' = "none" /\ qcall'[c] = r
  <2>1. r.e # e BY <1>3, <1>6
  <2> HIDE DEF QInv
  <2> QED BY <1>3, <1>7, <1>13, <2>1, ApartIs
<1>15. e \in qpool' /\ e \notin Used' BY <1>10 DEF Used
<1>16. QTypeInv'
  <2>1. qelem' \in [Elems -> Elem] /\ qcall' \in [QCores -> Call] BY <1>7, <1>9, <1>10, <1>11
  <2> QED BY <1>3, <1>10, <2>1 DEF QInv, QTypeInv
<1>17. InPoolOK(e)' BY <1>4, <1>9, <1>10, <1>12, <1>14 DEF InPoolOK
<1>18. QueueOK(e)' BY <1>3, <1>4, <1>9, <1>12, <1>15 DEF QueueOK
<1>19. CallOK(c)' BY <1>6, <1>14 DEF CallOK
<1>20. TreeInv'
  <2>1. \A d \in QCores : Pending(d)' = Pending(d) BY <1>2, <1>6, <1>14 DEF Pending, Apart
  <2>2. qelem'[e].aggr = qelem[e].aggr BY <1>9, <1>12
  <2> QED BY <1>3, <1>4, <1>14, <2>1, <2>2, TreeSame
<1>21. CountInv'
  <2>1. e \in Counted /\ e \notin Counted' BY <1>3, <1>15 DEF Counted
  <2>2. c \notin Uncounts /\ c \in Uncounts' BY <1>2, <1>6, <1>14 DEF Uncounts
  <2>3. qcount' = qcount /\ qcount \in Int BY <1>10 DEF QInv, QTypeInv
  <2> QED BY <1>14, <2>1, <2>2, <2>3, CountMoves
<1>22. ListInv' BY <1>10 DEF QInv, ListInv
<1>23. OutInv'
  <2>1. OutAt(e) = "no" BY <1>3 DEF OutAt
  <2>2. OutAt(e)' = "no" BY <1>15 DEF OutAt
  <2> QED BY <1>10, <1>14, <2>1, <2>2, OutSame
<1>24. prioMap' = prioMap BY <1>10
<1> QED
  BY <1>3, <1>14, <1>16, <1>17, <1>18, <1>19, <1>20, <1>21, <1>22, <1>23, <1>24, OneQueue

\* The count of queues goes down.
LEMMA DecCountStep ==
  ASSUME QInv, NEW c \in QCores, DecCount(c)
  PROVE  QInv'
<1>1. /\ qcall[c].stage = "count" /\ qcall' = [qcall EXCEPT ![c] = NoQCall] /\ qcount' = qcount - 1
      /\ UNCHANGED <<qpool, qelem, odpQueue, outCount, idxFree, listed, numQueues, node, nullNode,
                     half, qops, prioMap>>
  BY DEF DecCount, Return, qshared, history
<1>2. QTypeInv /\ OneCall /\ CallOK(c) /\ qcall \in [QCores -> Call] BY DEF QInv, CallsInv, QTypeInv
<1>3. qcall[c].e = NoQueue BY <1>1, <1>2 DEF CallOK
<1>4. PICK r : r = NoQCall OBVIOUS
<1>5. r \in Call /\ r.e = NoQueue /\ r.stage = "none"
  <2>1. <<>> \in Seq(AggrQ) OBVIOUS
  <2> QED BY <1>4, <2>1, SetsAre DEF NoQCall, Call, Stages, States
<1>6. /\ OneCall'
      /\ \A f \in Elems : StageOf(f)' = IF f = r.e THEN r.stage
                                        ELSE IF f = qcall[c].e THEN "none" ELSE StageOf(f)
  <2> HIDE DEF QInv, NoQCall
  <2>1. qcall' = [qcall EXCEPT ![c] = r] /\ (r.e = NoQueue \/ \A d \in QCores : d # c => qcall[d].e # r.e)
    BY <1>1, <1>4, <1>5
  <2> QED BY <1>2, <1>5, <2>1, StageAfter
<1>7. \A f \in Elems : StageOf(f)' = StageOf(f) BY <1>3, <1>5, <1>6, SetsAre
<1>8. qcall'[c] = r /\ \A d \in QCores : d # c => qcall'[d] = qcall[d] BY <1>1, <1>2, <1>4
<1>9. Apart(NoQueue, QCores \ {c}) BY <1>1, <1>7, <1>8 DEF Apart
<1>10. NoQueue \notin Elems /\ NoQueue \notin AggrQ BY SetsAre
<1>11. ElemsInv' BY <1>9, <1>10, ApartKeeps DEF ElemsInv
<1>12. CallsInv'
  <2>1. CallOK(c)' BY <1>5, <1>8 DEF CallOK
  <2> QED BY <1>9, <2>1, ApartKeeps DEF CallsInv
<1>13. TreeInv'
  <2>1. \A d \in QCores : Pending(d)' = Pending(d) BY <1>1, <1>5, <1>8 DEF Pending
  <2>2. qelem'[NoQueue].aggr = qelem[NoQueue].aggr BY <1>1
  <2>3. NoQueue \notin Queues BY SetsAre
  <2> QED BY <1>9, <1>10, <2>1, <2>2, <2>3, TreeSame
<1>14. CountInv'
  <2>1. NoQueue \notin Counted /\ NoQueue \notin Counted' BY <1>10 DEF Counted, Used
  <2>2. c \in Uncounts /\ c \notin Uncounts' BY <1>1, <1>5, <1>8 DEF Uncounts
  <2>3. qcount' = qcount - 1 /\ qcount \in Int BY <1>1, <1>2 DEF QTypeInv
  <2> QED BY <1>9, <2>1, <2>2, <2>3, CountMoves
<1>15. OutInv'
  <2>1. OutAt(NoQueue) = "no" /\ OutAt(NoQueue)' = "no" BY <1>10 DEF OutAt, Used
  <2> QED BY <1>1, <1>9, <2>1, OutSame
<1>16. QTypeInv'
  <2>1. qcall' \in [QCores -> Call] /\ qcount' \in Int BY <1>1, <1>2, <1>4, <1>5 DEF QTypeInv
  <2> QED BY <1>1, <1>2, <2>1 DEF QTypeInv
<1>17. ListInv' /\ PrioMapMonotone' BY <1>1 DEF QInv, ListInv, PrioMapMonotone
<1> QED BY <1>6, <1>11, <1>12, <1>13, <1>14, <1>15, <1>16, <1>17 DEF QInv

-----------------------------------------------------------------------------
(* The steps that change aggregators *)

\* An element for one more aggregator.
LEMMA AllocAggrStep ==
  ASSUME QInv, NEW c \in QCores, AllocAggr(c)
  PROVE  QInv'
<1>1. PICK e : e = qcall[c].e OBVIOUS
<1>2. PICK kids : kids = qcall[c].kids OBVIOUS
<1>3. qcall[c].stage = "aggr" /\ qcall[c].e = e /\ Len(kids) < qcall[c].n BY <1>1, <1>2 DEF AllocAggr
<1>4. /\ e \in Queues /\ e \in Elems /\ e \in Used /\ e # NoQueue
      /\ StageOf(e) = "aggr" /\ qcall[c] \in Call /\ CallOK(c)
  BY <1>1, <1>3, InCall
<1>5. PICK k \in qpool \cap AggrQ :
        /\ qpool' = qpool \ {k} /\ qcount' = qcount + 1
        /\ qcall' = [qcall EXCEPT ![c].kids = Append(kids, k)]
  BY <1>2 DEF AllocAggr, QInv, QTypeInv
<1>6. UNCHANGED <<qelem, odpQueue, outCount, idxFree, listed, numQueues, node, nullNode, half, qops, prioMap>>
  BY DEF AllocAggr, qshared, history
<1>7. k \in Elems /\ k \in AggrQ /\ k \in qpool /\ k \notin Queues /\ k # e BY <1>4, <1>5, SetsAre
<1>8. InPoolOK(k) /\ AggrOK(k) BY <1>7 DEF QInv, ElemsInv, ElemOK
<1>9. kids \in Seq(AggrQ) /\ Len(kids) \in Nat BY <1>2, <1>4, LenProperties DEF Call
<1>10. Append(kids, k) \in Seq(AggrQ) /\ Len(Append(kids, k)) = Len(kids) + 1 BY <1>7, <1>9, AppendProperties
<1>11. PICK r : r = [qcall[c] EXCEPT !.kids = Append(kids, k)] OBVIOUS
<1>12. /\ r \in Call /\ r.e = e /\ r.stage = "aggr" /\ r.n = qcall[c].n /\ r.type = qcall[c].type
       /\ r.kids = Append(kids, k)
  BY <1>3, <1>4, <1>10, <1>11 DEF Call
<1>13. qcall' = [qcall EXCEPT ![c] = r] BY <1>5, <1>11
<1>14. QTypeInv /\ OneCall /\ qcall \in [QCores -> Call] BY DEF QInv, QTypeInv
<1>15. qcall'[c] = r /\ \A d \in QCores : d # c => qcall'[d] = qcall[d] BY <1>13, <1>14
<1>16. OneCall' /\ \A f \in Elems : StageOf(f)' = StageOf(f)
  <2>1. \A d \in QCores : d # c => qcall[d].e # e BY <1>3, <1>4, <1>14 DEF OneCall
  <2>2. /\ OneCall'
        /\ \A f \in Elems : StageOf(f)' = IF f = r.e THEN r.stage
                                          ELSE IF f = qcall[c].e THEN "none" ELSE StageOf(f)
    <3>1. r.e = NoQueue \/ \A d \in QCores : d # c => qcall[d].e # r.e BY <1>12, <2>1
    <3> HIDE DEF QInv
    <3> QED BY <1>12, <1>13, <1>14, <3>1, StageAfter
  <2> QED BY <1>3, <1>4, <1>12, <2>2
<1>17. \A d \in QCores : qcall[d].e # k
  <2>1. k # NoQueue /\ ~QInCall(k) BY <1>7, <1>8, <1>14, SetsAre, StageNone DEF AggrOK, QInv
  <2> QED BY <2>1 DEF QInCall
<1>18. Apart(k, QCores \ {c}) BY <1>5, <1>6, <1>15, <1>16, <1>17 DEF Apart
<1>19. k \in Used' /\ k \notin qpool' /\ k \notin Used BY <1>5, <1>7 DEF Used
<1>20. \A f \in Elems : f # k => (f \in Used' <=> f \in Used) BY <1>5 DEF Used
<1>21. ElemsInv'
  <2>1. ElemOK(k)' BY <1>6, <1>7, <1>8, <1>16, <1>19 DEF ElemOK, InPoolOK, AggrOK
  <2> QED BY <1>18, <2>1, ApartKeeps DEF ElemsInv
<1>22. CallsInv'
  <2>1. CallOK(c)'
    <3>1. qelem'[e] = qelem[e] /\ e \in Used' BY <1>4, <1>6, <1>7, <1>20
    <3>2. Len(r.kids) <= r.n BY <1>3, <1>4, <1>9, <1>10, <1>12 DEF Call
    <3> QED BY <1>3, <1>4, <1>12, <1>15, <3>1, <3>2 DEF CallOK
  <2> QED BY <1>18, <2>1, ApartKeeps DEF CallsInv
<1>23. TreeInv'
  <2>1. TreeInv BY DEF QInv
  <2>2. Pending(c) = kids /\ Pending(c)' = Append(kids, k) /\ \A d \in QCores : d # c => Pending(d)' = Pending(d)
    BY <1>2, <1>3, <1>12, <1>15 DEF Pending
  <2>3. Set(Append(kids, k)) = Set(kids) \cup {k}
    <3>1. /\ DOMAIN kids = 1..Len(kids) /\ DOMAIN Append(kids, k) = 1..Len(kids) + 1
          /\ \A i \in 1..Len(kids) : Append(kids, k)[i] = kids[i]
          /\ Append(kids, k)[Len(kids) + 1] = k
      BY <1>7, <1>9, AppendProperties, LenProperties
    <3> QED BY <1>9, <3>1 DEF Set
  <2>4. \A d \in QCores : k \notin Set(Pending(d)) BY <1>19, <2>1 DEF TreeInv, PendingOK
  <2>5. ASSUME NEW p \in Queues PROVE KidsOK(p)'
    <3>1. KidsOK(p) /\ p \in Elems /\ p # k BY <1>7, <2>1, SetsAre DEF TreeInv
    <3>2. \A i \in Kids(p) : i \in Used => i \in Used' BY <1>19, <1>20 DEF Used
    <3>3. p \in Used' <=> p \in Used BY <1>20, <3>1
    <3>4. StageOf(p)' = StageOf(p) BY <1>16, <3>1
    <3> QED BY <1>6, <3>1, <3>2, <3>3, <3>4 DEF KidsOK, Kids, Sends
  <2>6. ASSUME NEW d \in QCores PROVE PendingOK(d)'
    <3>1. PendingOK(d) /\ PendingOK(c) BY <2>1 DEF TreeInv
    <3>2. CASE d = c
      <4>1. Distinct(Append(kids, k))
        <5>1. /\ DOMAIN kids = 1..Len(kids) /\ DOMAIN Append(kids, k) = 1..Len(kids) + 1
              /\ \A i \in 1..Len(kids) : Append(kids, k)[i] = kids[i]
              /\ Append(kids, k)[Len(kids) + 1] = k
          BY <1>7, <1>9, AppendProperties, LenProperties
        <5>2. \A i \in 1..Len(kids) : kids[i] # k BY <2>2, <2>4, <5>1 DEF Set
        <5>3. \A i, j \in 1..Len(kids) : kids[i] = kids[j] => i = j BY <2>2, <3>1, <5>1 DEF PendingOK, Distinct
        <5> QED BY <1>9, <5>1, <5>2, <5>3 DEF Distinct
      <4>2. \A i \in Set(Append(kids, k)) : i \in AggrQ /\ i \in Used' /\ qelem'[i].parent = NoQueue
        <5>1. \A i \in Set(kids) : i \in AggrQ /\ i \in Used' /\ qelem'[i].parent = NoQueue
          BY <1>6, <1>19, <1>20, <2>2, <3>1, SetsAre DEF PendingOK
        <5>2. qelem'[k].parent = NoQueue BY <1>6, <1>7, <1>8 DEF InPoolOK
        <5> QED BY <1>7, <1>19, <2>3, <5>1, <5>2
      <4>3. \A x \in QCores : x # c => Set(Append(kids, k)) \cap Set(Pending(x)) = {}
        BY <2>2, <2>3, <2>4, <3>1 DEF PendingOK
      <4>6. \A x \in QCores : x # c => Set(Pending(x))' = Set(Pending(x)) BY <2>2 DEF Set
      <4>4. \A x \in QCores : x # c => Set(Append(kids, k)) \cap Set(Pending(x))' = {}
        BY <4>3, <4>6
      <4>5. Set(Pending(c))' = Set(Append(kids, k)) BY <2>2 DEF Set
      <4> QED BY <2>2, <3>2, <4>1, <4>2, <4>4, <4>5 DEF PendingOK, Distinct
    <3>3. CASE d # c
      <4>1. Set(Pending(d))' = Set(Pending(d)) /\ Distinct(Pending(d))' BY <2>2, <3>1, <3>3 DEF Set, PendingOK, Distinct
      <4>2. \A i \in Set(Pending(d)) : i \in AggrQ /\ i \in Used' /\ qelem'[i].parent = NoQueue
        BY <1>6, <1>20, <2>4, <3>1, SetsAre DEF PendingOK
      <4>3. ASSUME NEW x \in QCores, x # d PROVE Set(Pending(d)) \cap Set(Pending(x))' = {}
        <5>1. Set(Pending(d)) \cap Set(Pending(x)) = {} BY <3>1, <4>3 DEF PendingOK
        <5>2. CASE x = c
          <6>1. Set(Pending(x))' = Set(kids) \cup {k} BY <2>2, <2>3, <5>2 DEF Set
          <6> QED BY <2>2, <2>4, <5>1, <5>2, <6>1
        <5>3. CASE x # c
          <6>1. Set(Pending(x))' = Set(Pending(x)) BY <2>2, <5>3 DEF Set
          <6> QED BY <5>1, <6>1
        <5> QED BY <5>2, <5>3
      <4> QED BY <4>1, <4>2, <4>3 DEF PendingOK
    <3> QED BY <3>2, <3>3
  <2>7. ASSUME NEW i \in AggrQ PROVE AggrIn(i)'
    <3>1. AggrIn(i) /\ i \in Elems BY <2>1, SetsAre DEF TreeInv
    <3>2. PICK p : p = qelem[i].parent OBVIOUS
    <3>3. p # NoQueue => p \in Queues /\ p \in Used' /\ i \in Set(qelem'[p].aggr)
      BY <1>6, <1>20, <3>1, <3>2, SetsAre, <1>7 DEF AggrIn, Kids
    <3>4. i \in Used' /\ p = NoQueue => \E d \in QCores : i \in Set(Pending(d))'
      <4>1. CASE i = k
        <5>1. i \in Set(Pending(c))' BY <2>2, <2>3, <4>1 DEF Set
        <5> QED BY <5>1
      <4>2. CASE i # k
        <5>1. SUFFICES ASSUME i \in Used', p = NoQueue PROVE \E d \in QCores : i \in Set(Pending(d))' OBVIOUS
        <5>2. PICK d \in QCores : i \in Set(Pending(d)) BY <1>20, <3>1, <3>2, <4>2, <5>1 DEF AggrIn
        <5>3. CASE d = c
          <6>1. i \in Set(Append(kids, k)) BY <2>2, <2>3, <5>2, <5>3
          <6>2. Set(Pending(c))' = Set(Append(kids, k)) BY <2>2 DEF Set
          <6> QED BY <6>1, <6>2
        <5>4. CASE d # c
          <6>1. Set(Pending(d))' = Set(Pending(d)) BY <2>2, <5>4 DEF Set
          <6> QED BY <5>2, <6>1
        <5> QED BY <5>3, <5>4
      <4> QED BY <4>1, <4>2
    <3>5. qelem'[i].parent = p BY <1>6, <3>2
    <3> QED BY <3>3, <3>4, <3>5 DEF AggrIn, Kids
  <2> QED BY <2>5, <2>6, <2>7 DEF TreeInv
<1>24. CountInv'
  <2>1. k \notin Counted /\ k \in Counted' BY <1>7, <1>8, <1>16, <1>19 DEF Counted, InPoolOK
  <2>2. c \notin Uncounts /\ c \notin Uncounts' BY <1>3, <1>12, <1>15 DEF Uncounts
  <2>3. qcount' = qcount + 1 /\ qcount \in Int BY <1>5, <1>14 DEF QTypeInv
  <2> QED BY <1>18, <2>1, <2>2, <2>3, CountMoves
<1>25. OutInv'
  <2>1. OutAt(k) = "no" /\ OutAt(k)' = "no" BY <1>6, <1>8, <1>7 DEF OutAt, AggrOK
  <2> QED BY <1>6, <1>18, <2>1, OutSame
<1>26. QTypeInv'
  <2>1. qcall' \in [QCores -> Call] BY <1>12, <1>13, <1>14
  <2>2. qcount' \in Int
    <3>1. qcount \in Int BY <1>14 DEF QTypeInv
    <3> QED BY <1>5, <3>1
  <2>3. qpool' \in SUBSET Elems
    <3>1. qpool \in SUBSET Elems BY <1>14 DEF QTypeInv
    <3> QED BY <1>5, <3>1
  <2> QED BY <1>6, <1>14, <2>1, <2>2, <2>3 DEF QTypeInv
<1>27. ListInv' /\ PrioMapMonotone' BY <1>6 DEF QInv, ListInv, PrioMapMonotone
<1> QED BY <1>16, <1>21, <1>22, <1>23, <1>24, <1>25, <1>26, <1>27 DEF QInv

\* What becomes of the stages when the call of core c, on the queue e, changes.
Goes(c, e, r) ==
  qcall[c].e = e /\ (r.e = e \/ r.e = NoQueue) /\ qcall' = [qcall EXCEPT ![c] = r]

\* The call of a queue with aggregators goes on.
LEMMA CallMoves ==
  ASSUME QInv, NEW c \in QCores, NEW e \in Queues, NEW r \in Call, Goes(c, e, r)
  PROVE  /\ OneCall' /\ qcall' \in [QCores -> Call] /\ qcall'[c] = r
         /\ \A d \in QCores : d # c => qcall'[d] = qcall[d] /\ qcall[d].e # e
         /\ \A f \in Elems : f # e => StageOf(f)' = StageOf(f)
         /\ r.e = e => StageOf(e)' = r.stage
         /\ r.e # e => StageOf(e)' = "none"
<1>1. e \in Elems /\ e # NoQueue /\ NoQueue \notin Elems BY SetsAre
<1>2. QTypeInv /\ OneCall /\ qcall \in [QCores -> Call] BY DEF QInv, QTypeInv
<1>3. \A d \in QCores : d # c => qcall[d].e # e BY <1>1, <1>2 DEF OneCall, Goes
<1>4. r.e = NoQueue \/ \A d \in QCores : d # c => qcall[d].e # r.e BY <1>3 DEF Goes
<1>5. /\ OneCall'
      /\ \A f \in Elems : StageOf(f)' = IF f = r.e THEN r.stage
                                        ELSE IF f = qcall[c].e THEN "none" ELSE StageOf(f)
  <2>1. qcall' = [qcall EXCEPT ![c] = r] BY DEF Goes
  <2> HIDE DEF QInv
  <2> QED BY <1>2, <1>4, <2>1, StageAfter
<1> QED BY <1>1, <1>2, <1>3, <1>5 DEF Goes

\* A step of the call of core c on the queue e and on aggregators K that are
\* its own, or are in the hands of the call.
GroupStep(c, e, K) ==
  /\ qcall[c].e = e /\ e \notin qpool /\ e \notin qpool'
  /\ \A f \in Elems : f # e /\ f \notin K => qelem'[f] = qelem[f] /\ (f \in qpool' <=> f \in qpool)
  /\ \A f \in Elems : f # e => odpQueue'[f] = odpQueue[f]
  /\ \A k \in K : /\ qelem'[k].type \in {"undef", "aggr"} /\ qelem'[k].aggr = <<>>
                  /\ qelem'[k].parent = NoQueue => qelem'[k].st = "INVALID"
                  /\ k \in qpool' => qelem'[k].parent = NoQueue
  /\ \A p \in Queues : p # e => K \cap Kids(p) = {}
  /\ \A d \in QCores : d # c => K \cap Set(Pending(d)) = {}
  /\ qelem[e].type \in {"sched", "unsched"} /\ qelem'[e].type \in {"sched", "unsched"}
  /\ UNCHANGED <<outCount, idxFree, listed, numQueues, node, nullNode, half, qops, prioMap>>

\* The other queues keep their aggregators.
LEMMA GroupKeeps ==
  ASSUME QInv, NEW c \in QCores, NEW e \in Queues, NEW K \in SUBSET AggrQ, GroupStep(c, e, K),
         NEW r \in Call, r.e = e \/ r.e = NoQueue, qcall' = [qcall EXCEPT ![c] = r], r.stage # "aggr"
  PROVE  /\ OneCall' /\ qcall' \in [QCores -> Call] /\ qcall'[c] = r
         /\ r.e = e => StageOf(e)' = r.stage
         /\ r.e # e => StageOf(e)' = "none"
         /\ \A f \in Elems : f # e => StageOf(f)' = StageOf(f) /\ ElemOK(f)'
         /\ \A d \in QCores : d # c => CallOK(d)'
         /\ \A p \in Queues : p # e => KidsOK(p)'
         /\ \A d \in QCores : PendingOK(d)'
         /\ \A k \in AggrQ : k \notin K => qelem'[k] = qelem[k] /\ (k \in Used' <=> k \in Used)
         /\ OutInv' /\ ListInv' /\ PrioMapMonotone'
<1>1. /\ OneCall' /\ qcall' \in [QCores -> Call] /\ qcall'[c] = r
      /\ \A d \in QCores : d # c => qcall'[d] = qcall[d] /\ qcall[d].e # e
      /\ \A f \in Elems : f # e => StageOf(f)' = StageOf(f)
      /\ r.e = e => StageOf(e)' = r.stage
      /\ r.e # e => StageOf(e)' = "none"
  <2>1. Goes(c, e, r) BY DEF GroupStep, Goes
  <2> HIDE DEF QInv
  <2> QED BY <2>1, CallMoves
<1>2. /\ e \in Elems /\ e \notin AggrQ /\ Queues \in SUBSET Elems /\ AggrQ \in SUBSET Elems
      /\ Queues \cap AggrQ = {} /\ Elems = Queues \cup AggrQ /\ NoQueue \notin Elems
  BY SetsAre
<1>3. \A f \in Elems : f # e /\ f \notin K =>
        qelem'[f] = qelem[f] /\ (f \in qpool' <=> f \in qpool) /\ (f \in Used' <=> f \in Used)
  BY DEF GroupStep, Used
<1>4. e \in Used /\ e \in Used' BY <1>2 DEF GroupStep, Used
<1>5. UNCHANGED <<outCount, idxFree, listed, numQueues, node, nullNode, half, qops, prioMap>>
  BY DEF GroupStep
<1>6. ASSUME NEW f \in Elems, f # e PROVE ElemOK(f)'
  <2>1. ElemOK(f) /\ StageOf(f)' = StageOf(f) /\ odpQueue'[f] = odpQueue[f]
    BY <1>1, <1>6 DEF QInv, ElemsInv, GroupStep
  <2>2. CASE f \in K
    <3>1. f \in AggrQ /\ f \notin Queues BY <1>2, <2>2
    <3>2. /\ qelem'[f].type \in {"undef", "aggr"} /\ qelem'[f].aggr = <<>>
          /\ qelem'[f].parent = NoQueue => qelem'[f].st = "INVALID"
          /\ f \in qpool' => qelem'[f].parent = NoQueue
      BY <2>2 DEF GroupStep
    <3>3. AggrOK(f) BY <2>1 DEF ElemOK
    <3>4. AggrOK(f)' BY <1>5, <2>1, <3>1, <3>2, <3>3 DEF AggrOK
    <3>5. InPoolOK(f)' BY <1>5, <2>1, <3>1, <3>2, <3>3 DEF AggrOK, InPoolOK
    <3> QED BY <3>1, <3>4, <3>5 DEF ElemOK
  <2>3. CASE f \notin K
    <3>1. qelem'[f] = qelem[f] /\ (f \in qpool' <=> f \in qpool) /\ (f \in Used' <=> f \in Used)
      BY <1>3, <1>6, <2>3
    <3>2. InPoolOK(f)' BY <1>5, <2>1, <3>1 DEF ElemOK, InPoolOK
    <3>3. AggrOK(f)' BY <1>5, <2>1, <3>1 DEF ElemOK, AggrOK
    <3>4. f \in Queues => QueueOK(f)' BY <1>5, <2>1, <3>1 DEF ElemOK, QueueOK
    <3> QED BY <3>2, <3>3, <3>4 DEF ElemOK
  <2> QED BY <2>2, <2>3
<1>7. ASSUME NEW d \in QCores, d # c PROVE CallOK(d)'
  <2>1. CallOK(d) /\ qcall'[d] = qcall[d] /\ qcall[d].e # e BY <1>1, <1>7 DEF QInv, CallsInv
  <2>2. PICK x : x = qcall[d].e OBVIOUS
  <2>3. x # NoQueue => qelem'[x] = qelem[x] /\ x \in Used' /\ x \in Queues
    <3>1. SUFFICES ASSUME x # NoQueue PROVE qelem'[x] = qelem[x] /\ x \in Used' /\ x \in Queues OBVIOUS
    <3>2. x \in Queues /\ x \in Used /\ x # e BY <2>1, <2>2, <3>1 DEF CallOK
    <3> QED BY <1>2, <1>3, <3>2
  <2>4. qcall[d].stage \notin {"none", "count"} => x # NoQueue BY <2>1, <2>2 DEF CallOK
  <2> QED BY <2>1, <2>2, <2>3, <2>4 DEF CallOK
<1>8. ASSUME NEW p \in Queues, p # e PROVE KidsOK(p)'
  <2>1. KidsOK(p) /\ qelem'[p] = qelem[p] /\ (p \in Used' <=> p \in Used) /\ StageOf(p)' = StageOf(p)
    BY <1>1, <1>2, <1>3, <1>8 DEF QInv, TreeInv
  <2>2. \A k \in Kids(p) : k \in AggrQ /\ k \notin K /\ qelem'[k] = qelem[k] /\ (k \in Used' <=> k \in Used)
    BY <1>2, <1>3, <1>8, <2>1 DEF KidsOK, GroupStep
  <2> QED BY <2>1, <2>2 DEF KidsOK, Kids, Sends
<1>9. Pending(c)' = <<>> /\ \A d \in QCores : d # c => Pending(d)' = Pending(d) BY <1>1 DEF Pending
<1>10. Set(Pending(c))' = {} BY <1>9 DEF Set
<1>11. \A d \in QCores : d # c => Set(Pending(d))' = Set(Pending(d)) BY <1>9 DEF Set
<1>12. ASSUME NEW d \in QCores PROVE PendingOK(d)'
  <2>1. CASE d = c BY <1>9, <1>10, <2>1 DEF PendingOK, Distinct
  <2>2. CASE d # c
    <3>1. PendingOK(d) BY DEF QInv, TreeInv
    <3>2. Distinct(Pending(d))' BY <1>9, <2>2, <3>1 DEF PendingOK, Distinct
    <3>3. \A k \in Set(Pending(d)) : k \in AggrQ /\ k \in Used' /\ qelem'[k].parent = NoQueue
      BY <1>2, <1>3, <2>2, <3>1 DEF PendingOK, GroupStep
    <3>4. \A x \in QCores : x # d => Set(Pending(d)) \cap Set(Pending(x))' = {}
      BY <1>10, <1>11, <3>1 DEF PendingOK
    <3> QED BY <1>11, <2>2, <3>2, <3>3, <3>4 DEF PendingOK
  <2> QED BY <2>1, <2>2
<1>13. \A k \in AggrQ : k \notin K => qelem'[k] = qelem[k] /\ (k \in Used' <=> k \in Used) BY <1>2, <1>3
<1>14. OutInv'
  <2>1. ASSUME NEW f \in Elems
        PROVE  OutAt(f)' = OutAt(f) /\ (OutAt(f) # "no" => qelem'[f] = qelem[f])
    <3>1. CASE f = e BY <3>1 DEF OutAt, GroupStep
    <3>2. CASE f \in K
      <4>1. AggrOK(f) BY <2>1 DEF QInv, ElemsInv, ElemOK
      <4>2. qelem[f].type # "output" /\ qelem'[f].type # "output" BY <3>2, <4>1 DEF AggrOK, GroupStep
      <4> QED BY <4>2 DEF OutAt
    <3>3. CASE f # e /\ f \notin K BY <1>1, <1>3, <3>3 DEF OutAt
    <3> QED BY <3>1, <3>2, <3>3
  <2>2. OutAll' = OutAll /\ OutNow' = OutNow /\ Holding' = Holding BY <2>1 DEF OutAll, OutNow, Holding
  <2>3. \A f \in Holding : qelem'[f].idx = qelem[f].idx BY <2>1 DEF Holding
  <2> QED BY <1>5, <2>2, <2>3 DEF QInv, OutInv
<1>15. ListInv' /\ PrioMapMonotone' BY <1>5 DEF QInv, ListInv, PrioMapMonotone
<1> QED BY <1>1, <1>6, <1>7, <1>8, <1>12, <1>13, <1>14, <1>15

\* The aggregators ks are all freed, or none of them is.
Freed(c, e, ks) ==
  /\ Distinct(ks) /\ Set(ks) \in SUBSET Used
  /\ \/ Set(ks) \in SUBSET qpool' /\ qcount' = qcount - Len(ks)
     \/ Set(ks) \cap qpool' = {} /\ qcount' = qcount
  /\ Kids(e) \in SUBSET Set(ks) /\ Set(Pending(c)) \in SUBSET Set(ks)
  /\ qcall[c].stage \notin {"setup", "count", "none"}

\* A queue and its aggregators, as one group of elements.
LEMMA GroupQueue ==
  ASSUME QInv, NEW c \in QCores, NEW e \in Queues, NEW ks \in Seq(AggrQ), GroupStep(c, e, Set(ks)),
         Freed(c, e, ks),
         NEW r \in Call, r.e = e \/ r.e = NoQueue, qcall' = [qcall EXCEPT ![c] = r],
         r.stage \notin {"aggr", "setup", "count"},
         QTypeInv', QueueOK(e)', CallOK(c)', KidsOK(e)', \A k \in Set(ks) : AggrIn(k)'
  PROVE  QInv'
<1>1. PICK K : K = Set(ks) OBVIOUS
<1>2. K \in SUBSET AggrQ /\ IsFiniteSet(K) /\ Cardinality(K) = Len(ks) /\ Len(ks) \in Nat
  BY <1>1, DistinctSize DEF Freed
<1>3. GroupStep(c, e, K) BY <1>1
<1>4. /\ OneCall' /\ qcall' \in [QCores -> Call] /\ qcall'[c] = r
      /\ r.e = e => StageOf(e)' = r.stage
      /\ r.e # e => StageOf(e)' = "none"
      /\ \A f \in Elems : f # e => StageOf(f)' = StageOf(f) /\ ElemOK(f)'
      /\ \A d \in QCores : d # c => CallOK(d)'
      /\ \A p \in Queues : p # e => KidsOK(p)'
      /\ \A d \in QCores : PendingOK(d)'
      /\ \A k \in AggrQ : k \notin K => qelem'[k] = qelem[k] /\ (k \in Used' <=> k \in Used)
      /\ OutInv' /\ ListInv' /\ PrioMapMonotone'
  <2> HIDE DEF QInv
  <2> QED BY <1>2, <1>3, GroupKeeps
<1>5. /\ e \in Elems /\ e \notin AggrQ /\ Queues \in SUBSET Elems /\ AggrQ \in SUBSET Elems
      /\ Elems = Queues \cup AggrQ /\ NoQueue \notin Elems /\ e # NoQueue
  BY SetsAre
<1>6. e \notin qpool /\ e \notin qpool' /\ e \in Used /\ e \in Used' BY <1>3, <1>5 DEF GroupStep, Used
<1>7. ElemsInv'
  <2>1. ElemOK(e)' BY <1>5, <1>6 DEF ElemOK, InPoolOK, AggrOK
  <2> QED BY <1>4, <2>1 DEF ElemsInv
<1>8. CallsInv' BY <1>4 DEF CallsInv
<1>9. \A f \in Elems : f # e /\ f \notin K => qelem'[f] = qelem[f] /\ (f \in Used' <=> f \in Used)
  BY <1>3 DEF GroupStep, Used
<1>10. ASSUME NEW k \in AggrQ, k \notin K PROVE AggrIn(k)'
  <2>1. AggrIn(k) /\ qelem'[k] = qelem[k] /\ (k \in Used' <=> k \in Used)
    BY <1>4, <1>10 DEF QInv, TreeInv
  <2>2. PICK p : p = qelem[k].parent OBVIOUS
  <2>3. ASSUME p # NoQueue PROVE p \in Queues /\ p \in Used' /\ k \in Set(qelem'[p].aggr)
    <3>1. p \in Queues /\ p \in Used /\ k \in Kids(p) BY <2>1, <2>2, <2>3 DEF AggrIn
    <3>2. p # e BY <1>1, <1>10, <3>1 DEF Freed
    <3>3. p \notin K BY <1>2, <3>1, SetsAre
    <3>4. qelem'[p] = qelem[p] /\ p \in Used' BY <1>5, <1>9, <3>1, <3>2, <3>3
    <3> QED BY <3>1, <3>4 DEF Kids
  <2>4. ASSUME k \in Used', p = NoQueue PROVE \E d \in QCores : k \in Set(Pending(d))'
    <3>1. PICK d \in QCores : k \in Set(Pending(d)) BY <2>1, <2>2, <2>4 DEF AggrIn
    <3>2. d # c BY <1>1, <1>10, <3>1 DEF Freed
    <3>3. Goes(c, e, r) BY <1>3 DEF Goes, GroupStep
    <3>4. qcall'[d] = qcall[d]
      <4> HIDE DEF QInv
      <4> QED BY <3>2, <3>3, CallMoves
    <3>5. Pending(d)' = Pending(d) BY <3>4 DEF Pending
    <3>6. Set(Pending(d))' = Set(Pending(d)) BY <3>5 DEF Set
    <3> QED BY <3>1, <3>6
  <2>5. qelem'[k].parent = p BY <2>1, <2>2
  <2> QED BY <2>3, <2>4, <2>5 DEF AggrIn, Kids
<1>11. TreeInv'
  <2>1. \A k \in AggrQ : AggrIn(k)' BY <1>1, <1>10
  <2>2. \A p \in Queues : KidsOK(p)' BY <1>4
  <2> QED BY <1>4, <2>1, <2>2 DEF TreeInv
<1>12. CountInv'
  <2>1. \A k \in K : k \in Counted
    <3>1. ASSUME NEW k \in K PROVE k \in Counted
      <4>1. k \in Used /\ k \in AggrQ /\ k \in Elems BY <1>1, <1>2, <1>5, <3>1 DEF Freed
      <4>2. AggrOK(k) BY <4>1 DEF QInv, ElemsInv, ElemOK
      <4> QED BY <4>1, <4>2 DEF AggrOK, Counted
    <3> QED BY <3>1
  <2>2. e \in Counted /\ e \in Counted'
    <3>1. qcall[c].e = e /\ OneCall BY <1>3 DEF GroupStep, QInv
    <3>2. StageOf(e) = qcall[c].stage BY <1>5, <3>1, StageAt
    <3>3. StageOf(e)' # "setup" BY <1>4
    <3> QED BY <1>6, <3>2, <3>3 DEF Counted, Freed
  <2>3. \A f \in Elems : f \notin K => (f \in Counted' <=> f \in Counted)
    <3>1. ASSUME NEW f \in Elems, f \notin K, f # e PROVE f \in Counted' <=> f \in Counted
      <4>1. StageOf(f)' = StageOf(f) /\ (f \in Used' <=> f \in Used) BY <1>4, <1>9, <3>1
      <4> QED BY <4>1 DEF Counted
    <3> QED BY <2>2, <3>1
  <2>4. Uncounts' = Uncounts
    <3>1. Goes(c, e, r) BY <1>3 DEF Goes, GroupStep
    <3>2. \A d \in QCores : d # c => qcall'[d] = qcall[d]
      <4> HIDE DEF QInv
      <4> QED BY <3>1, CallMoves
    <3>3. qcall[c].stage # "count" /\ qcall'[c].stage # "count" BY <1>4 DEF Freed
    <3> QED BY <3>2, <3>3 DEF Uncounts
  <2>5. Counted \in SUBSET Elems /\ Counted' \in SUBSET Elems BY DEF Counted, Used
  <2>6. IsFiniteSet(Counted) BY <2>5, SetsAre, FS_Subset
  <2>7. CountInv BY DEF QInv
  <2>8. CASE K \in SUBSET qpool' /\ qcount' = qcount - Len(ks)
    <3>1. Counted' = Counted \ K
      <4>1. \A k \in K : k \notin Counted' BY <2>8 DEF Counted, Used
      <4> QED BY <2>3, <2>5, <4>1
    <3>2. K \in SUBSET Counted /\ Counted \cap K = K BY <2>1
    <3>3. Cardinality(Counted \ K) = Cardinality(Counted) - Cardinality(Counted \cap K)
      BY <2>6, <1>2, FS_Difference
    <3>4. Cardinality(Counted \ K) = Cardinality(Counted) - Len(ks) BY <1>2, <3>2, <3>3
    <3>5. Cardinality(Counted) \in Nat BY <2>6, FS_CardinalityType
    <3>6. Uncounts \in SUBSET QCores BY DEF Uncounts
    <3>7. Cardinality(Uncounts) \in Nat BY <3>6, SetsAre, FS_Subset, FS_CardinalityType
    <3>8. qcount = Cardinality(Counted) + Cardinality(Uncounts) BY <2>7 DEF CountInv
    <3>9. PICK n \in Nat : n = Cardinality(Counted) BY <3>5
    <3>10. PICK m \in Nat : m = Cardinality(Uncounts) BY <3>7
    <3>11. Cardinality(Counted') = n - Len(ks) /\ Cardinality(Uncounts') = m
      BY <2>4, <3>1, <3>4, <3>9, <3>10
    <3>12. qcount' = n - Len(ks) + m BY <1>2, <2>8, <3>8, <3>9, <3>10
    <3> QED BY <3>11, <3>12 DEF CountInv
  <2>9. CASE K \cap qpool' = {} /\ qcount' = qcount
    <3>1. \A k \in K : k \in Counted'
      <4>1. ASSUME NEW k \in K PROVE k \in Counted'
        <5>1. k \in Elems /\ k # e /\ k \in Used' BY <1>2, <1>5, <2>9 DEF Used
        <5>2. StageOf(k)' = StageOf(k) BY <1>4, <5>1
        <5> QED BY <2>1, <5>1, <5>2 DEF Counted
      <4> QED BY <4>1
    <3>2. Counted' = Counted BY <2>1, <2>3, <2>5, <3>1
    <3> QED BY <2>4, <2>7, <2>9, <3>2 DEF CountInv
  <2>10. \/ K \in SUBSET qpool' /\ qcount' = qcount - Len(ks)
         \/ K \cap qpool' = {} /\ qcount' = qcount
    BY <1>1 DEF Freed
  <2> QED BY <2>8, <2>9, <2>10
<1> QED BY <1>4, <1>7, <1>8, <1>11, <1>12 DEF QInv

LEMMA FreedElems ==
  ASSUME QInv, NEW ks \in Seq(AggrQ), NEW e \in Queues
  PROVE  /\ AggrFreed(qelem, ks) \in [Elems -> Elem]
         /\ AggrFreed(qelem, ks)[e] = qelem[e] /\ e \notin Set(ks) /\ Set(ks) \in SUBSET AggrQ
         /\ \A f \in Elems : f \notin Set(ks) => AggrFreed(qelem, ks)[f] = qelem[f]
         /\ \A k \in Set(ks) : /\ AggrFreed(qelem, ks)[k].type = qelem[k].type
                               /\ AggrFreed(qelem, ks)[k].aggr = qelem[k].aggr
                               /\ AggrFreed(qelem, ks)[k].st = "INVALID"
                               /\ AggrFreed(qelem, ks)[k].parent = NoQueue
<1>1. qelem \in [Elems -> Elem] BY DEF QInv, QTypeInv
<1>2. PICK g : g = AggrFreed(qelem, ks) OBVIOUS
<1>3. DOMAIN ks = 1..Len(ks) /\ ks \in [1..Len(ks) -> AggrQ] BY LenProperties
<1>4. Set(ks) \in SUBSET AggrQ BY <1>3 DEF Set
<1>5. e \in Elems /\ e \notin Set(ks) /\ AggrQ \in SUBSET Elems BY <1>4, SetsAre
<1>6. \A f \in Elems : (\E i \in DOMAIN ks : ks[i] = f) <=> f \in Set(ks) BY DEF Set
<1>7. g = [f \in Elems |-> IF f \in Set(ks) THEN [qelem[f] EXCEPT !.st = "INVALID", !.parent = NoQueue]
                                             ELSE qelem[f]]
  BY <1>2, <1>6 DEF AggrFreed
<1>8. \A f \in Elems : f \notin Set(ks) => g[f] = qelem[f] BY <1>7
<1>9. ASSUME NEW k \in Set(ks)
      PROVE  /\ g[k].type = qelem[k].type /\ g[k].aggr = qelem[k].aggr
             /\ g[k].st = "INVALID" /\ g[k].parent = NoQueue /\ g[k] \in Elem
  <2>1. k \in Elems /\ qelem[k] \in Elem BY <1>1, <1>4, <1>5
  <2>2. g[k] = [qelem[k] EXCEPT !.st = "INVALID", !.parent = NoQueue] BY <1>7, <2>1
  <2> QED BY <2>1, <2>2 DEF Elem, States
<1>10. g \in [Elems -> Elem]
  <2>1. \A f \in Elems : g[f] \in Elem BY <1>1, <1>8, <1>9
  <2> QED BY <1>7, <2>1
<1> QED BY <1>2, <1>4, <1>5, <1>8, <1>9, <1>10

\* A call whose next stage is s.
LEMMA NextCall ==
  ASSUME QInv, NEW c \in QCores, NEW s \in Stages, To(c, s)
  PROVE  \E r \in Call : /\ qcall' = [qcall EXCEPT ![c] = r] /\ r.stage = s /\ r.e = qcall[c].e
                         /\ r.type = qcall[c].type /\ r.n = qcall[c].n /\ r.kids = qcall[c].kids
<1>1. qcall[c] \in Call BY DEF QInv, QTypeInv
<1>2. PICK r : r = [qcall[c] EXCEPT !.stage = s] OBVIOUS
<1>3. /\ r \in Call /\ r.stage = s /\ r.e = qcall[c].e
      /\ r.type = qcall[c].type /\ r.n = qcall[c].n /\ r.kids = qcall[c].kids
  BY <1>1, <1>2 DEF Call
<1> QED BY <1>2, <1>3 DEF To

\* No element is left: the aggregators so far are given back.
LEMMA AllocAggrFailStep ==
  ASSUME QInv, NEW c \in QCores, AllocAggrFail(c)
  PROVE  QInv'
<1>1. PICK e : e = qcall[c].e OBVIOUS
<1>2. PICK ks : ks = qcall[c].kids OBVIOUS
<1>3. qcall[c].stage = "aggr" /\ qcall[c].e = e BY <1>1 DEF AllocAggrFail
<1>4. /\ e \in Queues /\ e \in Elems /\ e \in Used /\ e \notin qpool /\ e # NoQueue /\ e \notin AggrQ
      /\ StageOf(e) = "aggr" /\ qelem[e] \in Elem /\ qcall[c] \in Call /\ CallOK(c) /\ QueueOK(e) /\ KidsOK(e)
  BY <1>1, <1>3, InCall
<1>5. /\ qelem[e].aggr = <<>> /\ qelem[e].parent = NoQueue /\ qelem[e].type \in {"sched", "unsched"}
      /\ e \notin half /\ e \notin listed /\ qcall[c].type = qelem[e].type
  BY <1>3, <1>4 DEF QueueOK, NoOdpAt, CallOK
<1>6. ks \in Seq(AggrQ) /\ Pending(c) = ks BY <1>2, <1>3, <1>4 DEF Call, Pending
<1>7. PendingOK(c) /\ \A k \in AggrQ : AggrIn(k) BY DEF QInv, TreeInv
<1>8. Distinct(ks) /\ \A k \in Set(ks) : k \in AggrQ /\ k \in Used /\ qelem[k].parent = NoQueue
  BY <1>6, <1>7 DEF PendingOK
<1>9. PICK g : g = AggrFreed(qelem, ks) OBVIOUS
<1>10. /\ g \in [Elems -> Elem] /\ g[e] = qelem[e] /\ e \notin Set(ks) /\ Set(ks) \in SUBSET AggrQ
       /\ \A f \in Elems : f \notin Set(ks) => g[f] = qelem[f]
       /\ \A k \in Set(ks) : g[k].type = qelem[k].type /\ g[k].aggr = qelem[k].aggr
                             /\ g[k].st = "INVALID" /\ g[k].parent = NoQueue
  <2> HIDE DEF QInv
  <2> QED BY <1>4, <1>6, <1>9, FreedElems
<1>11. PICK x : x = [g[e] EXCEPT !.odp = FALSE] OBVIOUS
<1>12. /\ x.type = qelem[e].type /\ x.aggr = <<>> /\ x.parent = NoQueue /\ x.st = qelem[e].st /\ x \in Elem
  BY <1>4, <1>5, <1>10, <1>11 DEF Elem
<1>13. /\ qpool' = qpool \cup Set(ks) /\ qcount' = qcount - Len(ks)
       /\ odpQueue' = [odpQueue EXCEPT ![e] = "none"] /\ qelem' = [g EXCEPT ![e] = x] /\ To(c, "free")
       /\ UNCHANGED <<outCount, idxFree, listed, numQueues, node, nullNode, half, qops, prioMap>>
  BY <1>1, <1>2, <1>9, <1>11 DEF AllocAggrFail, qshared, history
<1>14. PICK r \in Call : /\ qcall' = [qcall EXCEPT ![c] = r] /\ r.stage = "free" /\ r.e = e
                         /\ r.type = qcall[c].type /\ r.n = qcall[c].n
  <2>1. "free" \in Stages BY DEF Stages
  <2> HIDE DEF QInv
  <2> QED BY <1>3, <1>13, <2>1, NextCall
<1>15. AggrQ \in SUBSET Elems /\ Queues \cap AggrQ = {} BY SetsAre
<1>16. /\ qelem'[e] = x /\ \A f \in Elems : f # e => qelem'[f] = g[f]
       /\ \A f \in Elems : f # e => odpQueue'[f] = odpQueue[f]
       /\ odpQueue'[e] = "none" /\ odpQueue' \in [Elems -> OdpSt] /\ qelem' \in [Elems -> Elem]
  <2>1. odpQueue \in [Elems -> OdpSt] BY DEF QInv, QTypeInv
  <2> QED BY <1>4, <1>10, <1>12, <1>13, <2>1 DEF OdpSt
<1>17. \A k \in Set(ks) : /\ k \in Elems /\ k # e /\ qelem'[k].type \in {"undef", "aggr"}
                          /\ qelem'[k].aggr = <<>> /\ qelem'[k].st = "INVALID" /\ qelem'[k].parent = NoQueue
  <2>1. \A k \in Set(ks) : AggrOK(k) /\ k \in AggrQ /\ k \in Elems
    BY <1>10, <1>15 DEF QInv, ElemsInv, ElemOK
  <2> QED BY <1>10, <1>16, <2>1 DEF AggrOK
<1>18. Kids(e) = {} BY <1>5 DEF Kids, Set
<1>19. GroupStep(c, e, Set(ks))
  <2>1. \A f \in Elems : f # e /\ f \notin Set(ks) => qelem'[f] = qelem[f] /\ (f \in qpool' <=> f \in qpool)
    BY <1>10, <1>13, <1>16
  <2>2. ASSUME NEW p \in Queues PROVE Set(ks) \cap Kids(p) = {}
    <3>1. KidsOK(p) /\ p # NoQueue BY SetsAre DEF QInv, TreeInv
    <3> QED BY <1>8, <3>1 DEF KidsOK
  <2>3. \A d \in QCores : d # c => Set(ks) \cap Set(Pending(d)) = {} BY <1>6, <1>7 DEF PendingOK
  <2> QED BY <1>3, <1>4, <1>5, <1>10, <1>12, <1>13, <1>16, <1>17, <2>1, <2>2, <2>3 DEF GroupStep
<1>20. Freed(c, e, ks) BY <1>3, <1>6, <1>8, <1>13, <1>18 DEF Freed
<1>21. QTypeInv'
  <2>1. qcall' \in [QCores -> Call] BY <1>14 DEF QInv, QTypeInv
  <2>2. Len(ks) \in Nat BY <1>6, LenProperties
  <2>3. qcount' \in Int /\ qpool' \in SUBSET Elems BY <1>10, <1>13, <1>15, <2>2 DEF QInv, QTypeInv
  <2> QED BY <1>13, <1>16, <2>1, <2>3 DEF QInv, QTypeInv
<1>22. StageOf(e)' = "free" /\ qcall'[c] = r
  <2>1. Goes(c, e, r) BY <1>3, <1>14 DEF Goes
  <2> HIDE DEF QInv
  <2> QED BY <1>4, <1>14, <2>1, CallMoves
<1>23. e \notin qpool' /\ e \in Used' BY <1>4, <1>10, <1>13 DEF Used
<1>24. QueueOK(e)' BY <1>4, <1>5, <1>12, <1>13, <1>16, <1>22, <1>23 DEF QueueOK, NoOdpAt
<1>25. CallOK(c)' BY <1>4, <1>5, <1>12, <1>14, <1>16, <1>22, <1>23 DEF CallOK
<1>26. KidsOK(e)' BY <1>12, <1>16 DEF KidsOK, Kids, Set, Distinct
<1>27. \A k \in Set(ks) : AggrIn(k)' BY <1>13, <1>17 DEF AggrIn, Used
<1>28. r.e = e \/ r.e = NoQueue BY <1>14
<1>29. r.stage \notin {"aggr", "setup", "count"} BY <1>14
<1> HIDE DEF QInv
<1> QED
  BY <1>4, <1>6, <1>14, <1>19, <1>20, <1>21, <1>24, <1>25, <1>26, <1>27, <1>28, <1>29, GroupQueue

\* The aggregators of a queue are given back.
LEMMA FreeAggrAllStep ==
  ASSUME QInv, NEW c \in QCores, FreeAggrAll(c)
  PROVE  QInv'
<1>1. PICK e : e = qcall[c].e OBVIOUS
<1>2. PICK ks : ks = qelem[e].aggr OBVIOUS
<1>3. qcall[c].stage = "freeaggr" /\ qcall[c].e = e BY <1>1 DEF FreeAggrAll
<1>4. /\ e \in Queues /\ e \in Elems /\ e \in Used /\ e \notin qpool /\ e # NoQueue /\ e \notin AggrQ
      /\ StageOf(e) = "freeaggr" /\ qelem[e] \in Elem /\ qcall[c] \in Call /\ CallOK(c) /\ QueueOK(e) /\ KidsOK(e)
  BY <1>1, <1>3, InCall
<1>5. /\ qelem[e].parent = NoQueue /\ qelem[e].type # "undef" /\ odpQueue[e] = "none"
      /\ qelem[e].type \in {"sched", "unsched"}
      /\ e \notin half /\ e \notin listed /\ qcall[c].type = qelem[e].type
  BY <1>2, <1>3, <1>4 DEF QueueOK, NoOdpAt, CallOK
<1>6. ks \in Seq(AggrQ) /\ Pending(c) = <<>> BY <1>2, <1>3, <1>4 DEF Elem, Pending
<1>7. Distinct(ks) /\ \A k \in Set(ks) : k \in AggrQ /\ k \in Used /\ qelem[k].parent = e
  BY <1>2, <1>4 DEF KidsOK, Kids
<1>8. PICK g : g = AggrFreed(qelem, ks) OBVIOUS
<1>9. /\ g \in [Elems -> Elem] /\ g[e] = qelem[e] /\ e \notin Set(ks) /\ Set(ks) \in SUBSET AggrQ
      /\ \A f \in Elems : f \notin Set(ks) => g[f] = qelem[f]
      /\ \A k \in Set(ks) : g[k].type = qelem[k].type /\ g[k].aggr = qelem[k].aggr
                            /\ g[k].st = "INVALID" /\ g[k].parent = NoQueue
  <2> HIDE DEF QInv
  <2> QED BY <1>4, <1>6, <1>8, FreedElems
<1>10. PICK x : x = [g[e] EXCEPT !.aggr = <<>>] OBVIOUS
<1>11. /\ x.type = qelem[e].type /\ x.aggr = <<>> /\ x.parent = NoQueue /\ x.st = qelem[e].st /\ x \in Elem
  <2>1. <<>> \in Seq(AggrQ) OBVIOUS
  <2> QED BY <1>4, <1>5, <1>9, <1>10, <2>1 DEF Elem
<1>12. /\ qpool' = qpool \cup Set(ks) /\ qcount' = qcount - Len(ks)
       /\ qelem' = [g EXCEPT ![e] = x] /\ To(c, "free")
       /\ UNCHANGED <<odpQueue, outCount, idxFree, listed, numQueues, node, nullNode, half, qops, prioMap>>
  BY <1>1, <1>2, <1>8, <1>10 DEF FreeAggrAll, qshared, history
<1>13. PICK r \in Call : /\ qcall' = [qcall EXCEPT ![c] = r] /\ r.stage = "free" /\ r.e = e
                         /\ r.type = qcall[c].type /\ r.n = qcall[c].n
  <2>1. "free" \in Stages BY DEF Stages
  <2> HIDE DEF QInv
  <2> QED BY <1>3, <1>12, <2>1, NextCall
<1>14. AggrQ \in SUBSET Elems /\ Queues \cap AggrQ = {} BY SetsAre
<1>15. /\ qelem'[e] = x /\ \A f \in Elems : f # e => qelem'[f] = g[f]
       /\ qelem' \in [Elems -> Elem]
  BY <1>4, <1>9, <1>11, <1>12
<1>16. \A k \in Set(ks) : /\ k \in Elems /\ k # e /\ qelem'[k].type \in {"undef", "aggr"}
                          /\ qelem'[k].aggr = <<>> /\ qelem'[k].st = "INVALID" /\ qelem'[k].parent = NoQueue
  <2>1. \A k \in Set(ks) : AggrOK(k) /\ k \in AggrQ /\ k \in Elems
    BY <1>9, <1>14 DEF QInv, ElemsInv, ElemOK
  <2> QED BY <1>9, <1>15, <2>1 DEF AggrOK
<1>17. Kids(e) = Set(ks) /\ Set(Pending(c)) = {} BY <1>2, <1>6 DEF Kids, Set
<1>18. GroupStep(c, e, Set(ks))
  <2>1. \A f \in Elems : f # e /\ f \notin Set(ks) => qelem'[f] = qelem[f] /\ (f \in qpool' <=> f \in qpool)
    BY <1>9, <1>12, <1>15
  <2>2. ASSUME NEW p \in Queues, p # e PROVE Set(ks) \cap Kids(p) = {}
    <3>1. KidsOK(p) BY DEF QInv, TreeInv
    <3> QED BY <1>7, <2>2, <3>1 DEF KidsOK
  <2>3. \A d \in QCores : Set(ks) \cap Set(Pending(d)) = {}
    <3>1. \A d \in QCores : PendingOK(d) BY DEF QInv, TreeInv
    <3> QED BY <1>4, <1>7, <3>1 DEF PendingOK
  <2>4. /\ e \notin qpool' /\ \A f \in Elems : odpQueue'[f] = odpQueue[f] BY <1>4, <1>9, <1>12
  <2>5. /\ qelem[e].type \in {"sched", "unsched"} /\ qelem'[e].type \in {"sched", "unsched"}
    BY <1>5, <1>11, <1>15
  <2> QED BY <1>3, <1>4, <1>12, <1>16, <2>1, <2>2, <2>3, <2>4, <2>5 DEF GroupStep
<1>19. Freed(c, e, ks) BY <1>3, <1>7, <1>12, <1>17 DEF Freed
<1>20. QTypeInv'
  <2>1. qcall' \in [QCores -> Call] BY <1>13 DEF QInv, QTypeInv
  <2>2. Len(ks) \in Nat BY <1>6, LenProperties
  <2>3. qcount' \in Int /\ qpool' \in SUBSET Elems BY <1>9, <1>12, <1>14, <2>2 DEF QInv, QTypeInv
  <2> QED BY <1>12, <1>15, <2>1, <2>3 DEF QInv, QTypeInv
<1>21. StageOf(e)' = "free" /\ qcall'[c] = r
  <2>1. Goes(c, e, r) BY <1>3, <1>13 DEF Goes
  <2> HIDE DEF QInv
  <2> QED BY <1>4, <1>13, <2>1, CallMoves
<1>22. e \notin qpool' /\ e \in Used' BY <1>4, <1>9, <1>12 DEF Used
<1>23. QueueOK(e)'
  <2>1. Len(x.aggr) <= MaxAggr BY <1>11, SetsAre
  <2> QED BY <1>4, <1>5, <1>11, <1>12, <1>15, <1>21, <1>22, <2>1 DEF QueueOK, NoOdpAt
<1>24. CallOK(c)' BY <1>4, <1>5, <1>11, <1>13, <1>15, <1>21, <1>22 DEF CallOK
<1>25. KidsOK(e)' BY <1>11, <1>15 DEF KidsOK, Kids, Set, Distinct
<1>26. \A k \in Set(ks) : AggrIn(k)' BY <1>12, <1>16 DEF AggrIn, Used
<1>27. r.e = e \/ r.e = NoQueue BY <1>13
<1>28. r.stage \notin {"aggr", "setup", "count"} BY <1>13
<1> HIDE DEF QInv
<1> QED
  BY <1>4, <1>6, <1>13, <1>18, <1>19, <1>20, <1>23, <1>24, <1>25, <1>26, <1>27, <1>28, GroupQueue

\* The state of a queue goes to its aggregators.
LEMMA PropagateStep ==
  ASSUME QInv, NEW c \in QCores, Propagate(c)
  PROVE  QInv'
<1>1. PICK e : e = qcall[c].e OBVIOUS
<1>2. PICK ks : ks = qelem[e].aggr OBVIOUS
<1>3. qcall[c].stage = "kids" /\ qcall[c].e = e BY <1>1 DEF Propagate
<1>4. /\ e \in Queues /\ e \in Elems /\ e \in Used /\ e \notin qpool /\ e # NoQueue /\ e \notin AggrQ
      /\ StageOf(e) = "kids" /\ qelem[e] \in Elem /\ qcall[c] \in Call /\ CallOK(c) /\ QueueOK(e) /\ KidsOK(e)
  BY <1>1, <1>3, InCall
<1>5. qelem[e].type \in {"sched", "unsched"} /\ qcall[c].st = qelem[e].st BY <1>3, <1>4 DEF QueueOK, CallOK
<1>6. ks \in Seq(AggrQ) /\ Pending(c) = <<>> BY <1>2, <1>3, <1>4 DEF Elem, Pending
<1>7. Distinct(ks) /\ \A k \in Set(ks) : k \in AggrQ /\ k \in Used /\ qelem[k].parent = e
  BY <1>2, <1>4 DEF KidsOK, Kids
<1>8. AggrQ \in SUBSET Elems /\ Queues \cap AggrQ = {} /\ e \notin Set(ks) BY <1>4, <1>7, SetsAre
<1>9. /\ qelem' = [f \in Elems |-> IF f \in Set(ks) THEN [qelem[f] EXCEPT !.st = qelem[e].st] ELSE qelem[f]]
      /\ Return(c)
      /\ UNCHANGED <<qpool, odpQueue, qcount, outCount, idxFree, listed, numQueues, node, nullNode, half, qops, prioMap>>
  BY <1>1, <1>2, <1>5 DEF Propagate, qshared, history
<1>10. \A f \in Elems : f \notin Set(ks) => qelem'[f] = qelem[f] BY <1>9
<1>11. ASSUME NEW k \in Set(ks)
       PROVE  /\ k \in Elems /\ k # e /\ k \notin qpool /\ qelem'[k] \in Elem
              /\ qelem'[k].type \in {"undef", "aggr"}
              /\ qelem'[k].aggr = <<>> /\ qelem'[k].st = qelem[e].st /\ qelem'[k].parent = e
  <2>1. k \in Elems /\ k \in AggrQ /\ k # e /\ k \notin qpool BY <1>7, <1>8 DEF Used
  <2>2. AggrOK(k) /\ qelem[k] \in Elem BY <2>1 DEF QInv, ElemsInv, ElemOK, QTypeInv
  <2>3. qelem'[k] = [qelem[k] EXCEPT !.st = qelem[e].st] BY <1>9, <2>1
  <2>4. qelem[k].parent = e BY <1>7
  <2> QED BY <1>4, <2>1, <2>2, <2>3, <2>4 DEF AggrOK, Elem
<1>12. PICK r : r = NoQCall OBVIOUS
<1>13. r \in Call /\ r.e = NoQueue /\ r.stage = "none"
  <2>1. <<>> \in Seq(AggrQ) OBVIOUS
  <2> QED BY <1>12, <2>1, SetsAre DEF NoQCall, Call, Stages, States
<1>14. qcall' = [qcall EXCEPT ![c] = r] BY <1>9, <1>12 DEF Return
<1>15. Kids(e) = Set(ks) /\ Set(Pending(c)) = {} BY <1>2, <1>6 DEF Kids, Set
<1>16. GroupStep(c, e, Set(ks))
  <2>1. \A f \in Elems : f # e /\ f \notin Set(ks) => qelem'[f] = qelem[f] /\ (f \in qpool' <=> f \in qpool)
    BY <1>9, <1>10
  <2>2. ASSUME NEW p \in Queues, p # e PROVE Set(ks) \cap Kids(p) = {}
    <3>1. KidsOK(p) BY DEF QInv, TreeInv
    <3> QED BY <1>7, <2>2, <3>1 DEF KidsOK
  <2>3. \A d \in QCores : Set(ks) \cap Set(Pending(d)) = {}
    <3>1. \A d \in QCores : PendingOK(d) BY DEF QInv, TreeInv
    <3> QED BY <1>4, <1>7, <3>1 DEF PendingOK
  <2>4. qelem'[e] = qelem[e] BY <1>4, <1>8, <1>10
  <2>5. \A k \in Set(ks) : /\ qelem'[k].type \in {"undef", "aggr"} /\ qelem'[k].aggr = <<>>
                           /\ qelem'[k].parent = NoQueue => qelem'[k].st = "INVALID"
                           /\ k \in qpool' => qelem'[k].parent = NoQueue
    BY <1>4, <1>9, <1>11
  <2> QED BY <1>3, <1>4, <1>5, <1>9, <2>1, <2>2, <2>3, <2>4, <2>5 DEF GroupStep
<1>17. Freed(c, e, ks)
  <2>1. Set(ks) \cap qpool' = {} BY <1>9, <1>11
  <2> QED BY <1>3, <1>7, <1>9, <1>15, <2>1 DEF Freed
<1>18. QTypeInv'
  <2>1. qcall' \in [QCores -> Call] BY <1>13, <1>14 DEF QInv, QTypeInv
  <2>2. \A f \in Elems : qelem'[f] \in Elem BY <1>10, <1>11 DEF QInv, QTypeInv
  <2>3. qelem' \in [Elems -> Elem] BY <1>9, <2>2
  <2> QED BY <1>9, <2>1, <2>3 DEF QInv, QTypeInv
<1>19. StageOf(e)' = "none" /\ qcall'[c] = r
  <2>1. Goes(c, e, r) /\ r.e # e BY <1>3, <1>4, <1>13, <1>14 DEF Goes
  <2> HIDE DEF QInv
  <2> QED BY <1>4, <1>13, <2>1, CallMoves
<1>20. e \notin qpool' /\ e \in Used' /\ Used' = Used /\ qelem'[e] = qelem[e] BY <1>4, <1>8, <1>9, <1>10 DEF Used
<1>21. QueueOK(e)' BY <1>4, <1>5, <1>9, <1>19, <1>20 DEF QueueOK, NoOdpAt
<1>22. CallOK(c)' BY <1>13, <1>19 DEF CallOK
<1>23. KidsOK(e)'
  <2>1. Distinct(qelem'[e].aggr) /\ Kids(e)' = Set(ks) BY <1>2, <1>7, <1>20 DEF Kids, Set
  <2>2. \A k \in Set(ks) : k \in AggrQ /\ k \in Used' /\ qelem'[k].parent = e BY <1>7, <1>11, <1>20
  <2>3. \A k \in Set(ks) : Sends(k)' <=> Sends(e)' BY <1>11, <1>20 DEF Sends
  <2> QED BY <2>1, <2>2, <2>3 DEF KidsOK
<1>24. ASSUME NEW k \in Set(ks) PROVE AggrIn(k)'
  <2>1. k \in Set(qelem'[e].aggr) /\ qelem'[k].parent = e BY <1>2, <1>11, <1>20
  <2> QED BY <1>4, <1>20, <2>1 DEF AggrIn, Kids
<1>25. r.e = e \/ r.e = NoQueue BY <1>13
<1>26. r.stage \notin {"aggr", "setup", "count"} BY <1>13
<1> HIDE DEF QInv
<1> QED
  BY <1>4, <1>6, <1>13, <1>14, <1>16, <1>17, <1>18, <1>21, <1>22, <1>23, <1>24, <1>25, <1>26, GroupQueue

\* The aggregators of a queue are set up.
LEMMA SetupAggrStep ==
  ASSUME QInv, NEW c \in QCores, SetupAggr(c)
  PROVE  QInv'
<1>1. PICK e : e = qcall[c].e OBVIOUS
<1>2. PICK ks : ks = qcall[c].kids OBVIOUS
<1>3. qcall[c].stage = "aggr" /\ qcall[c].e = e /\ Len(ks) = qcall[c].n BY <1>1, <1>2 DEF SetupAggr
<1>4. /\ e \in Queues /\ e \in Elems /\ e \in Used /\ e \notin qpool /\ e # NoQueue /\ e \notin AggrQ
      /\ StageOf(e) = "aggr" /\ qelem[e] \in Elem /\ qcall[c] \in Call /\ CallOK(c) /\ QueueOK(e) /\ KidsOK(e)
  BY <1>1, <1>3, InCall
<1>5. /\ qelem[e].aggr = <<>> /\ qelem[e].parent = NoQueue /\ qelem[e].type \in {"sched", "unsched"}
      /\ e \notin half /\ e \notin listed /\ qcall[c].type = qelem[e].type /\ odpQueue[e] # "none"
  BY <1>3, <1>4 DEF QueueOK, NoOdpAt, CallOK
<1>6. ks \in Seq(AggrQ) /\ Pending(c) = ks /\ Len(ks) <= MaxAggr
  BY <1>2, <1>3, <1>4, SetsAre DEF Call, Pending
<1>7. PendingOK(c) /\ \A k \in AggrQ : AggrIn(k) BY DEF QInv, TreeInv
<1>8. Distinct(ks) /\ \A k \in Set(ks) : k \in AggrQ /\ k \in Used /\ qelem[k].parent = NoQueue
  BY <1>6, <1>7 DEF PendingOK
<1>9. AggrQ \in SUBSET Elems /\ Queues \cap AggrQ = {} /\ e \notin Set(ks) BY <1>4, <1>8, SetsAre
<1>10. PICK s : s = IF qelem[e].type = "sched" THEN "list" ELSE "none" OBVIOUS
<1>11. PICK x : x = [qelem[e] EXCEPT !.aggr = ks] OBVIOUS
<1>12. /\ x.type = qelem[e].type /\ x.aggr = ks /\ x.parent = NoQueue /\ x.st = qelem[e].st /\ x \in Elem
  BY <1>4, <1>5, <1>6, <1>11 DEF Elem
<1>13. PICK y : y = [NewElem EXCEPT !.type = "aggr", !.st = qelem[e].st, !.parent = e, !.odp = TRUE] OBVIOUS
<1>14. /\ y.type = "aggr" /\ y.aggr = <<>> /\ y.parent = e /\ y.st = qelem[e].st /\ y \in Elem
  <2>1. y = [type |-> "aggr", st |-> qelem[e].st, aggr |-> <<>>, parent |-> e, idx |-> 0, odp |-> TRUE]
    BY <1>13 DEF NewElem
  <2>2. <<>> \in Seq(AggrQ) /\ 0 \in 0..MaxOutput - 1 BY SetsAre
  <2> QED BY <1>4, <2>1, <2>2 DEF Elem, QTypes
<1>15. /\ qelem' = [f \in Elems |-> IF f = e THEN x ELSE IF f \in Set(ks) THEN y ELSE qelem[f]]
       /\ IF qelem[e].type = "sched" THEN To(c, "list") ELSE Return(c)
       /\ UNCHANGED <<qpool, odpQueue, qcount, outCount, idxFree, listed, numQueues, node, nullNode, half, qops, prioMap>>
  BY <1>1, <1>2, <1>5, <1>11, <1>13 DEF SetupAggr, qshared, history
<1>16. PICK r \in Call : /\ qcall' = [qcall EXCEPT ![c] = r] /\ r.stage = s
                         /\ (s = "none" /\ r.e = NoQueue)
                            \/ (s = "list" /\ r.e = e /\ r.type = qcall[c].type /\ r.n = qcall[c].n)
  <2>1. CASE qelem[e].type = "sched"
    <3>1. "list" \in Stages /\ To(c, "list") BY <1>15, <2>1 DEF Stages
    <3>2. \E r \in Call : /\ qcall' = [qcall EXCEPT ![c] = r] /\ r.stage = "list" /\ r.e = qcall[c].e
                          /\ r.type = qcall[c].type /\ r.n = qcall[c].n /\ r.kids = qcall[c].kids
      <4> HIDE DEF QInv
      <4> QED BY <3>1, NextCall
    <3> QED BY <1>3, <1>10, <2>1, <3>2
  <2>2. CASE qelem[e].type # "sched"
    <3>1. PICK r : r = NoQCall OBVIOUS
    <3>2. <<>> \in Seq(AggrQ) OBVIOUS
    <3>3. r \in Call /\ r.e = NoQueue /\ r.stage = "none"
      BY <3>1, <3>2, SetsAre DEF NoQCall, Call, Stages, States
    <3>4. qcall' = [qcall EXCEPT ![c] = r] BY <1>15, <2>2, <3>1 DEF Return
    <3> QED BY <1>10, <2>2, <3>3, <3>4
  <2> QED BY <2>1, <2>2
<1>17. /\ qelem'[e] = x /\ (\A k \in Set(ks) : k \in Elems /\ k # e /\ k \notin qpool /\ qelem'[k] = y)
       /\ \A f \in Elems : f # e /\ f \notin Set(ks) => qelem'[f] = qelem[f]
  BY <1>4, <1>8, <1>9, <1>15 DEF Used
<1>18. Kids(e) = {} BY <1>5 DEF Kids, Set
<1>19. GroupStep(c, e, Set(ks))
  <2>1. \A f \in Elems : f # e /\ f \notin Set(ks) => qelem'[f] = qelem[f] /\ (f \in qpool' <=> f \in qpool)
    BY <1>15, <1>17
  <2>2. ASSUME NEW p \in Queues PROVE Set(ks) \cap Kids(p) = {}
    <3>1. KidsOK(p) /\ p # NoQueue BY SetsAre DEF QInv, TreeInv
    <3> QED BY <1>8, <3>1 DEF KidsOK
  <2>3. \A d \in QCores : d # c => Set(ks) \cap Set(Pending(d)) = {} BY <1>6, <1>7 DEF PendingOK
  <2>4. \A k \in Set(ks) : /\ qelem'[k].type \in {"undef", "aggr"} /\ qelem'[k].aggr = <<>>
                           /\ qelem'[k].parent = NoQueue => qelem'[k].st = "INVALID"
                           /\ k \in qpool' => qelem'[k].parent = NoQueue
    BY <1>4, <1>14, <1>15, <1>17
  <2> QED BY <1>3, <1>4, <1>5, <1>12, <1>15, <1>17, <2>1, <2>2, <2>3, <2>4 DEF GroupStep
<1>20. Freed(c, e, ks)
  <2>1. Set(ks) \cap qpool' = {} BY <1>15, <1>17
  <2> QED BY <1>3, <1>6, <1>8, <1>15, <1>18, <2>1 DEF Freed
<1>21. QTypeInv'
  <2>1. qcall' \in [QCores -> Call] BY <1>16 DEF QInv, QTypeInv
  <2>2. \A f \in Elems : qelem'[f] \in Elem BY <1>12, <1>14, <1>17 DEF QInv, QTypeInv
  <2>3. qelem' \in [Elems -> Elem] BY <1>15, <2>2
  <2> QED BY <1>15, <2>1, <2>3 DEF QInv, QTypeInv
<1>22. StageOf(e)' = s /\ qcall'[c] = r
  <2>1. Goes(c, e, r) BY <1>3, <1>16 DEF Goes
  <2>2. (r.e = e => StageOf(e)' = r.stage) /\ (r.e # e => StageOf(e)' = "none") /\ qcall'[c] = r
    <3> HIDE DEF QInv
    <3> QED BY <1>4, <1>16, <2>1, CallMoves
  <2> QED BY <1>4, <1>16, <2>2
<1>23. e \notin qpool' /\ e \in Used' /\ Used' = Used BY <1>4, <1>15 DEF Used
<1>24. QueueOK(e)' BY <1>4, <1>5, <1>6, <1>10, <1>12, <1>15, <1>17, <1>22, <1>23 DEF QueueOK, NoOdpAt
<1>25. CallOK(c)'
  <2>1. s = "list" => r.e = e /\ qelem'[e].type = qelem[e].type /\ r.type = qelem[e].type
    BY <1>5, <1>12, <1>16, <1>17
  <2> QED BY <1>4, <1>10, <1>16, <1>22, <1>23, <2>1 DEF CallOK
<1>26. KidsOK(e)'
  <2>1. Distinct(qelem'[e].aggr) /\ Kids(e)' = Set(ks) BY <1>8, <1>12, <1>17 DEF Kids, Set
  <2>2. \A k \in Set(ks) : k \in AggrQ /\ k \in Used' /\ qelem'[k].parent = e BY <1>8, <1>14, <1>17, <1>23
  <2>3. \A k \in Set(ks) : Sends(k)' <=> Sends(e)' BY <1>12, <1>14, <1>17 DEF Sends
  <2> QED BY <2>1, <2>2, <2>3 DEF KidsOK
<1>27. ASSUME NEW k \in Set(ks) PROVE AggrIn(k)'
  <2>1. k \in Set(qelem'[e].aggr) /\ qelem'[k].parent = e BY <1>12, <1>14, <1>17
  <2> QED BY <1>4, <1>23, <2>1 DEF AggrIn, Kids
<1>28. r.e = e \/ r.e = NoQueue BY <1>16
<1>29. r.stage \notin {"aggr", "setup", "count"} BY <1>10, <1>16
<1> HIDE DEF QInv
<1> QED
  BY <1>4, <1>6, <1>16, <1>19, <1>20, <1>21, <1>24, <1>25, <1>26, <1>27, <1>28, <1>29, GroupQueue

-----------------------------------------------------------------------------
(* Priorities *)

\* The legacy priority map is monotone and within the range of ODP priorities.
LEMMA LegacyIs ==
  ASSUME NEW min \in Nat, NEW max \in Nat, NEW def \in Nat, min <= def, def <= max
  PROVE  /\ \A i \in 1..PrioNum - 1 : prio_legacy(min, max, def)[i - 1] <= prio_legacy(min, max, def)[i]
         /\ prio_legacy(min, max, def)[0] >= min /\ prio_legacy(min, max, def)[PrioNum - 1] = max
<1>1. PrioNum = 8 BY QueueAssumption
<1>2. PICK g : g = prio_legacy(min, max, def) OBVIOUS
<1>3. g = [i \in 0..7 |-> IF i \in 3..5 THEN def ELSE IF i < 4 THEN min ELSE max]
  BY <1>1, <1>2 DEF prio_legacy
<1>4. /\ g[0] = min /\ g[1] = min /\ g[2] = min /\ g[3] = def /\ g[4] = def /\ g[5] = def
      /\ g[6] = max /\ g[7] = max
  BY <1>3
<1>5. ASSUME NEW i \in 1..7 PROVE g[i - 1] <= g[i]
  <2>1. i \in {1, 2, 3, 4, 5, 6, 7} OBVIOUS
  <2>2. min <= max OBVIOUS
  <2> QED BY <1>4, <2>1, <2>2
<1> QED BY <1>1, <1>2, <1>4, <1>5

\* So is the adaptive one.
LEMMA AdaptiveIs ==
  ASSUME NEW min \in Nat, NEW max \in Nat, min <= max
  PROVE  /\ \A i \in 1..PrioNum - 1 : prio_adaptive(min, max)[i - 1] <= prio_adaptive(min, max)[i]
         /\ prio_adaptive(min, max)[0] >= min /\ prio_adaptive(min, max)[PrioNum - 1] = max
<1>1. PrioNum = 8 BY QueueAssumption
<1>2. PICK g : g = prio_adaptive(min, max) OBVIOUS
<1>3. PICK n \in Nat : n = max - min OBVIOUS
<1>4. g = [i \in 0..7 |-> IF i = 7 THEN max ELSE (min * 8 + i * (n + 1)) \div 8]
  BY <1>1, <1>2, <1>3 DEF prio_adaptive
<1>5. /\ g[0] = (min * 8 + 0 * (n + 1)) \div 8 /\ g[1] = (min * 8 + 1 * (n + 1)) \div 8
      /\ g[2] = (min * 8 + 2 * (n + 1)) \div 8 /\ g[3] = (min * 8 + 3 * (n + 1)) \div 8
      /\ g[4] = (min * 8 + 4 * (n + 1)) \div 8 /\ g[5] = (min * 8 + 5 * (n + 1)) \div 8
      /\ g[6] = (min * 8 + 6 * (n + 1)) \div 8 /\ g[7] = max
  BY <1>4
<1>6. g[0] <= g[1] /\ g[1] <= g[2] /\ g[2] <= g[3] BY <1>5
<1>7. g[3] <= g[4] /\ g[4] <= g[5] /\ g[5] <= g[6] BY <1>5
<1>8. g[6] <= g[7] /\ g[0] >= min BY <1>3, <1>5
<1>9. ASSUME NEW i \in 1..7 PROVE g[i - 1] <= g[i]
  <2>1. i \in {1, 2, 3, 4, 5, 6, 7} OBVIOUS
  <2> QED BY <1>6, <1>7, <1>8, <2>1
<1> QED BY <1>1, <1>2, <1>5, <1>8, <1>9

\* A step that changes nothing but the number of operations and the priorities.
LEMMA QuietStep ==
  ASSUME QInv, PrioMapMonotone',
         UNCHANGED <<qpool, qelem, odpQueue, qcount, outCount, idxFree, listed, numQueues, node, nullNode,
                     qcall, half>>
  PROVE  QInv'
<1>1. UNCHANGED <<qpool, qelem, odpQueue, qcount, outCount, idxFree, listed, numQueues, node, nullNode,
                  qcall, half>>
  OBVIOUS
<1>2. QTypeInv' /\ OneCall' BY <1>1 DEF QInv, QTypeInv, OneCall
<1>3. \A f \in Elems : StageOf(f)' = StageOf(f) BY <1>1 DEF StageOf, QInCall
<1>4. Apart(NoQueue, QCores) BY <1>1, <1>3 DEF Apart
<1>5. NoQueue \notin Elems /\ NoQueue \notin AggrQ /\ NoQueue \notin Queues BY SetsAre
<1>6. ElemsInv' /\ CallsInv' BY <1>4, <1>5, ApartKeeps DEF ElemsInv, CallsInv
<1>7. TreeInv'
  <2>1. \A d \in QCores : Pending(d)' = Pending(d) BY <1>1 DEF Pending
  <2>2. qelem'[NoQueue].aggr = qelem[NoQueue].aggr BY <1>1
  <2> QED BY <1>4, <1>5, <2>1, <2>2, TreeSame
<1>8. CountInv'
  <2>1. Used' = Used /\ Uncounts' = Uncounts BY <1>1 DEF Used, Uncounts
  <2>2. Counted' = Counted BY <1>3, <2>1 DEF Counted, Used
  <2> QED BY <1>1, <2>1, <2>2 DEF QInv, CountInv
<1>9. ListInv' BY <1>1 DEF QInv, ListInv
<1>10. OutInv'
  <2>1. OutAt(NoQueue) = "no" /\ OutAt(NoQueue)' = "no" BY <1>5 DEF OutAt, Used
  <2> QED BY <1>1, <1>4, <2>1, OutSame
<1> QED BY <1>2, <1>6, <1>7, <1>8, <1>9, <1>10 DEF QInv

\* The priority map is made.
LEMMA PrioStep ==
  ASSUME QInv, queue_init_prio_map
  PROVE  QInv'
<1>1. PICK min \in 0..MaxPrio, max \in 0..MaxPrio, def \in 0..MaxPrio :
        /\ min <= def /\ def <= max
        /\ prioMap' \in {[map |-> m, min |-> min, max |-> max] :
                         m \in {prio_legacy(min, max, def), prio_adaptive(min, max)}}
  BY DEF queue_init_prio_map
<1>2. PICK m \in {prio_legacy(min, max, def), prio_adaptive(min, max)} :
        prioMap' = [map |-> m, min |-> min, max |-> max]
  BY <1>1
<1>3. min \in Nat /\ max \in Nat /\ def \in Nat /\ min <= max BY <1>1, QueueAssumption
<1>4. /\ \A i \in 1..PrioNum - 1 : m[i - 1] <= m[i]
      /\ m[0] >= min /\ m[PrioNum - 1] = max
  BY <1>1, <1>2, <1>3, LegacyIs, AdaptiveIs
<1>5. PrioMapMonotone' BY <1>2, <1>4 DEF PrioMapMonotone
<1>6. UNCHANGED <<qpool, qelem, odpQueue, qcount, outCount, idxFree, listed, numQueues, node, nullNode,
                  qcall, half>>
  BY DEF queue_init_prio_map, qshared
<1> QED BY <1>5, <1>6, QuietStep

-----------------------------------------------------------------------------
(* The invariant *)

\* Before the first queue.
LEMMA QInitIs ==
  ASSUME QueueInit
  PROVE  QInv
<1>1. /\ qpool = Elems /\ qelem = [e \in Elems |-> NewElem]
      /\ odpQueue = [e \in Elems |-> "none"] /\ qcount = 0
      /\ outCount = 0 /\ idxFree = [i \in 0..MaxOutput - 1 |-> TRUE]
      /\ listed = {} /\ numQueues = 0 /\ node = [e \in Elems |-> "zero"] /\ nullNode = FALSE
      /\ qcall = [c \in QCores |-> NoQCall]
      /\ half = {} /\ qops = 0 /\ prioMap = <<>>
  BY DEF QueueInit
<1>2. /\ Queues \in SUBSET Elems /\ AggrQ \in SUBSET Elems /\ Elems = Queues \cup AggrQ
      /\ NoQueue \notin Elems /\ MaxOutput \in Nat /\ MaxOutput # 0 /\ MaxAggr \in Nat
  BY SetsAre
<1>3. <<>> \in Seq(AggrQ) OBVIOUS
<1>4. NewElem \in Elem BY <1>2, <1>3 DEF NewElem, Elem, QTypes, States
<1>5. NoQCall \in Call BY <1>2, <1>3 DEF NoQCall, Call, Stages, States
<1>6. QTypeInv
  <2>1. qelem \in [Elems -> Elem] BY <1>1, <1>4
  <2>2. qcall \in [QCores -> Call] BY <1>1, <1>5
  <2>3. odpQueue \in [Elems -> OdpSt] BY <1>1 DEF OdpSt
  <2>4. idxFree \in [0..MaxOutput - 1 -> BOOLEAN] BY <1>1
  <2>5. node \in [Elems -> {"zero", "in", "self"}] BY <1>1
  <2>6. qpool \in SUBSET Elems /\ listed \in SUBSET Elems /\ half \in SUBSET Elems BY <1>1
  <2>7. qcount \in Int /\ outCount \in Int /\ numQueues \in Int BY <1>1
  <2>8. nullNode \in BOOLEAN BY <1>1
  <2> QED BY <2>1, <2>2, <2>3, <2>4, <2>5, <2>6, <2>7, <2>8 DEF QTypeInv
<1>7. \A c \in QCores : qcall[c].e = NoQueue /\ qcall[c].stage = "none" BY <1>1 DEF NoQCall
<1>8. \A e \in Elems : StageOf(e) = "none" BY <1>2, <1>7 DEF StageOf, QInCall
<1>9. /\ Used = {} /\ \A e \in Elems : /\ qelem[e].type = "undef" /\ qelem[e].aggr = <<>>
                                       /\ qelem[e].parent = NoQueue /\ qelem[e].st = "INVALID"
                                       /\ odpQueue[e] = "none"
  BY <1>1 DEF Used, NewElem
<1>10. OneCall BY <1>7 DEF OneCall
<1>11. ElemsInv
  <2>1. ASSUME NEW e \in Elems PROVE ElemOK(e)
    <3>1. InPoolOK(e) BY <1>1, <1>8, <1>9 DEF InPoolOK
    <3>2. AggrOK(e) BY <1>1, <1>8, <1>9 DEF AggrOK
    <3>3. QueueOK(e) BY <1>2, <1>9 DEF QueueOK
    <3> QED BY <3>1, <3>2, <3>3 DEF ElemOK
  <2> QED BY <2>1 DEF ElemsInv
<1>12. CallsInv BY <1>7 DEF CallsInv, CallOK
<1>13. TreeInv
  <2>1. \A p \in Queues : KidsOK(p) BY <1>2, <1>9 DEF KidsOK, Kids, Set, Distinct
  <2>2. \A c \in QCores : PendingOK(c) BY <1>7 DEF PendingOK, Pending, Set, Distinct
  <2>3. \A k \in AggrQ : AggrIn(k) BY <1>2, <1>9 DEF AggrIn
  <2> QED BY <2>1, <2>2, <2>3 DEF TreeInv
<1>14. CountInv
  <2>1. Counted = {} /\ Uncounts = {} BY <1>7, <1>9 DEF Counted, Uncounts
  <2> QED BY <1>1, <2>1, FS_EmptySet DEF CountInv
<1>15. ListInv BY <1>1, FS_EmptySet DEF ListInv
<1>16. OutInv
  <2>1. \A e : OutAt(e) = "no" BY <1>9 DEF OutAt
  <2>2. Holding = {} /\ OutNow = {} /\ OutAll = {} BY <2>1 DEF Holding, OutNow, OutAll
  <2> QED BY <1>1, <1>2, <2>2, FS_EmptySet DEF OutInv
<1>17. PrioMapMonotone BY <1>1 DEF PrioMapMonotone
<1> QED BY <1>6, <1>10, <1>11, <1>12, <1>13, <1>14, <1>15, <1>16, <1>17 DEF QInv

\* A step that changes nothing of the queues.
LEMMA NothingMoves ==
  ASSUME UNCHANGED qvars
  PROVE  UNCHANGED <<qpool, qelem, odpQueue, qcount, outCount, idxFree, listed, numQueues, node, nullNode,
                     qcall, half>>
BY DEF qvars, qshared, history

\* Every step keeps the invariant of the queues.
LEMMA QStepIs ==
  ASSUME QInv, ~DeleteAgain, ~DeletePktin, "output" \notin QFails, [QueueNext]_qvars
  PROVE  QInv'
<1> HIDE DEF QInv
<1>1. ASSUME NEW c \in QCores, QueueStep(c) PROVE QInv'
  <2>1. CASE \E e \in Elems, p \in Params : queue_alloc(c, e, p[1], p[2]) BY <2>1, ElemAllocStep
  <2>2. CASE Setup(c) BY <2>2, SetupStep
  <2>3. CASE SetContext(c) BY <2>3, SetContextStep
  <2>4. CASE TakeIndex(c) BY <2>4, TakeIndexStep
  <2>5. CASE Uncount(c) BY <2>5, UncountStep
  <2>6. CASE CreateOdp(c) BY <2>6, CreateOdpStep
  <2>7. CASE AllocAggr(c) BY <2>7, AllocAggrStep
  <2>8. CASE AllocAggrFail(c) BY <2>8, AllocAggrFailStep
  <2>9. CASE SetupAggr(c) BY <2>9, SetupAggrStep
  <2>10. CASE AddToList(c) BY <2>10, AddToListStep
  <2>11. CASE queue_free(c) BY <2>11, ElemFreeStep
  <2>12. CASE DecCount(c) BY <2>12, DecCountStep
  <2>13. CASE \E e \in Elems : em_queue_delete(c, e) BY <2>13, DeleteStep
  <2>14. CASE RemFromList(c) BY <2>14, RemFromListStep
  <2>15. CASE DrainOutput(c) BY <2>15, DrainOutputStep
  <2>16. CASE DestroyOdp(c) BY <2>16, DestroyOdpStep
  <2>17. CASE FreeAggrAll(c) BY <2>17, FreeAggrAllStep
  <2>18. CASE \E e \in Elems, st \in {"READY", "BIND"} : queue_state_set(c, e, st) BY <2>18, StateSetStep
  <2>19. CASE Propagate(c) BY <2>19, PropagateStep
  <2> QED
    BY <1>1, <2>1, <2>2, <2>3, <2>4, <2>5, <2>6, <2>7, <2>8, <2>9, <2>10, <2>11, <2>12, <2>13, <2>14, <2>15,
       <2>16, <2>17, <2>18, <2>19 DEF QueueStep
<1>2. ASSUME NEW e \in Elems, eo_add_queue(e) \/ eo_rem_queue(e) PROVE QInv' BY <1>2, EoQueueStep
<1>3. ASSUME NEW e \in Elems, SendTo(e) PROVE QInv' BY <1>3, SendToStep
<1>4. ASSUME NEW e \in Elems, TakeFrom(e) PROVE QInv' BY <1>4, TakeFromStep
<1>5. CASE queue_init_prio_map BY <1>5, PrioStep
<1>6. CASE UNCHANGED qvars
  <2>1. UNCHANGED <<qpool, qelem, odpQueue, qcount, outCount, idxFree, listed, numQueues, node, nullNode,
                    qcall, half>>
    BY <1>6, NothingMoves
  <2>2. prioMap' = prioMap BY <1>6 DEF qvars, history
  <2>3. PrioMapMonotone' BY <2>2 DEF QInv, PrioMapMonotone
  <2> QED BY <2>1, <2>3, QuietStep
<1> QED BY <1>1, <1>2, <1>3, <1>4, <1>5, <1>6 DEF QueueNext

-----------------------------------------------------------------------------
(* What the invariant says of the properties *)

\* A call that is at its end has done all it had to.
LEMMA StagesEnd ==
  ASSUME QInv, NoCalls
  PROVE  /\ \A e \in Elems : StageOf(e) = "none"
         /\ \A c \in QCores : Pending(c) = <<>>
         /\ Uncounts = {} /\ Counted = Used
         /\ \A e \in Used \cap Queues : e \in Stable
<1>1. \A c \in QCores : qcall[c].e = NoQueue /\ qcall[c].stage = "none" BY DEF NoCalls, NoQCall
<1>2. \A e \in Elems : StageOf(e) = "none" /\ ~QInCall(e) BY <1>1, SetsAre DEF StageOf, QInCall
<1>3. \A c \in QCores : Pending(c) = <<>> BY <1>1 DEF Pending
<1>4. Uncounts = {} BY <1>1 DEF Uncounts
<1>5. Counted = Used BY <1>2 DEF Counted, Used
<1>6. ASSUME NEW e \in Used \cap Queues PROVE e \in Stable
  <2>1. e \in Elems /\ e \in Used BY DEF Used
  <2>2. QueueOK(e) BY <2>1 DEF QInv, ElemsInv, ElemOK
  <2>3. StageOf(e) = "none" /\ ~QInCall(e) BY <1>2, <2>1
  <2>4. qelem[e].type \notin {"undef", "aggr"} BY <2>1, <2>2, <2>3 DEF QueueOK
  <2> QED BY <2>1, <2>3, <2>4 DEF Stable
<1> QED BY <1>2, <1>3, <1>4, <1>5, <1>6

\* The count of output queues is at most one per call above the limit.
LEMMA OutCountIs ==
  ASSUME QInv
  PROVE  outCount \in 0..MaxOutput + Cardinality(QCores)
<1> DEFINE Over == {e \in Elems : OutAt(e) = "over"}
           CoreAt(e) == CHOOSE c \in QCores : qcall[c].e = e
<1>1. IsFiniteSet(Over) /\ IsFiniteSet(OutNow) /\ IsFiniteSet(OutAll)
  BY SetsAre, FS_Subset DEF OutNow, OutAll
<1>2. OutAll = OutNow \cup Over /\ OutNow \cap Over = {} BY DEF OutAll, OutNow
<1>3. /\ Cardinality(OutAll) = Cardinality(OutNow) + Cardinality(Over) - Cardinality(OutNow \cap Over)
      /\ Cardinality(OutNow \cap Over) = 0
  BY <1>1, <1>2, FS_Union, FS_EmptySet
<1>4. Cardinality(OutNow) \in Nat /\ Cardinality(Over) \in Nat /\ Cardinality(QCores) \in Nat
  BY <1>1, SetsAre, FS_CardinalityType
<1>5. Cardinality(Over) <= Cardinality(QCores)
  <2>1. ASSUME NEW e \in Over PROVE CoreAt(e) \in QCores /\ qcall[CoreAt(e)].e = e
    <3>1. StageOf(e) # "none" BY DEF OutAt
    <3>2. \E c \in QCores : qcall[c].e = e BY <3>1, StageNone DEF QInv
    <3> QED BY <3>2
  <2>2. [e \in Over |-> CoreAt(e)] \in Injection(Over, QCores)
    BY <2>1 DEF Injection, IsInjective
  <2> HIDE DEF Over
  <2>3. PICK f : f \in Injection(Over, QCores) BY <2>2
  <2> QED BY <2>3, SetsAre, FS_Injection
<1>6. outCount = Cardinality(OutAll) /\ Cardinality(OutNow) <= MaxOutput BY DEF QInv, OutInv
<1> QED BY <1>3, <1>4, <1>5, <1>6, SetsAre

\* The types the runs check.
LEMMA QTypesAre ==
  ASSUME QInv
  PROVE  QueueTypeOK
<1>1. /\ qpool \in SUBSET Elems /\ qelem \in [Elems -> Elem] /\ odpQueue \in [Elems -> OdpSt]
      /\ listed \in SUBSET Elems /\ half \in SUBSET Elems
  BY DEF QInv, QTypeInv
<1>2. ASSUME NEW e \in Elems
      PROVE  /\ qelem[e].st \in {"INVALID", "INIT", "BIND", "READY", "UNSCHEDULED"}
             /\ qelem[e].idx \in 0..MaxOutput - 1 /\ Len(qelem[e].aggr) <= MaxAggr
             /\ odpQueue[e] \in {"none", "empty", "events"}
  <2>1. qelem[e] \in Elem /\ odpQueue[e] \in OdpSt BY <1>1
  <2>2. Len(qelem[e].aggr) <= MaxAggr
    <3>1. ElemOK(e) BY DEF QInv, ElemsInv
    <3>2. CASE e \in Queues BY <3>1, <3>2 DEF ElemOK, QueueOK
    <3>3. CASE e \in AggrQ
      <4>1. qelem[e].aggr = <<>> BY <3>1, <3>3 DEF ElemOK, AggrOK
      <4> QED BY <4>1, SetsAre
    <3> QED BY <3>2, <3>3, SetsAre
  <2> QED BY <2>1, <2>2 DEF Elem, States, OdpSt
<1>3. qcount \in Nat
  <2>1. IsFiniteSet(Counted) /\ IsFiniteSet(Uncounts) BY SetsAre, FS_Subset DEF Counted, Used, Uncounts
  <2>2. Cardinality(Counted) \in Nat /\ Cardinality(Uncounts) \in Nat BY <2>1, FS_CardinalityType
  <2> QED BY <2>2 DEF QInv, CountInv
<1>4. numQueues \in Nat
  <2>1. IsFiniteSet(listed) BY <1>1, SetsAre, FS_Subset
  <2> QED BY <2>1, FS_CardinalityType DEF QInv, ListInv
<1> QED BY <1>1, <1>2, <1>3, <1>4, OutCountIs DEF QueueTypeOK

\* Aggregators that are known to a queue are elements of their own.
LEMMA KidsKnown ==
  ASSUME QInv, NEW e \in Stable, NEW k \in Kids(e)
  PROVE  k \in AggrQ /\ k \in Used /\ qelem[k].parent = e /\ k \in Counted
<1>1. e \in Queues BY StableIs
<1>2. KidsOK(e) BY <1>1 DEF QInv, TreeInv
<1>3. k \in AggrQ /\ k \in Used /\ qelem[k].parent = e BY <1>2 DEF KidsOK
<1>4. StageOf(k) = "none" BY <1>3, SetsAre DEF QInv, ElemsInv, ElemOK, AggrOK
<1> QED BY <1>3, <1>4 DEF Counted

\* Elements in use are those not in the pool.
LEMMA ElemsAre ==
  ASSUME QInv
  PROVE  ElemsAccounted
<1> DEFINE queues == Stable \cup UNION {Kids(e) : e \in Stable}
<1>1. IsFiniteSet(Counted) /\ IsFiniteSet(Uncounts) BY SetsAre, FS_Subset DEF Counted, Used, Uncounts
<1>2. Cardinality(Counted) \in Nat /\ Cardinality(Uncounts) \in Nat BY <1>1, FS_CardinalityType
<1>3. qcount = Cardinality(Counted) + Cardinality(Uncounts) BY DEF QInv, CountInv
<1>4. queues \subseteq Counted
  <2>1. ASSUME NEW e \in Stable PROVE e \in Counted BY StableIs DEF Counted
  <2> QED BY <2>1, KidsKnown
<1>5. Cardinality(queues) <= Cardinality(Counted) /\ Cardinality(queues) \in Nat
  BY <1>1, <1>4, FS_Subset, FS_CardinalityType
<1>6. Cardinality(queues) <= qcount BY <1>2, <1>3, <1>5
<1>7. \A e \in Stable : \A k \in Kids(e) : k \in Used /\ qelem[k].parent = e BY KidsKnown
<1>8. ASSUME NoCalls PROVE Used = queues /\ qcount = Cardinality(Used)
  <2>1. Uncounts = {} /\ Counted = Used BY <1>8, StagesEnd
  <2>2. qcount = Cardinality(Used) BY <1>2, <1>3, <2>1, FS_EmptySet
  <2>3. ASSUME NEW e \in Used PROVE e \in queues
    <3>1. CASE e \in Queues BY <1>8, <3>1, StagesEnd
    <3>2. CASE e \in AggrQ
      <4>1. AggrIn(e) BY <3>2 DEF QInv, TreeInv
      <4>2. \A c \in QCores : e \notin Set(Pending(c)) BY <1>8, StagesEnd DEF Set
      <4>3. qelem[e].parent # NoQueue BY <4>1, <4>2 DEF AggrIn
      <4>4. PICK p \in Queues : p \in Used /\ e \in Kids(p) BY <4>1, <4>3 DEF AggrIn
      <4>5. p \in Stable BY <1>8, <4>4, StagesEnd
      <4> QED BY <4>4, <4>5
    <3> QED BY <3>1, <3>2, SetsAre DEF Used
  <2> QED BY <1>4, <2>1, <2>2, <2>3
<1> QED BY <1>6, <1>7, <1>8 DEF ElemsAccounted

\* A queue that is there has its ODP queue.
LEMMA OdpAre ==
  ASSUME QInv
  PROVE  OdpQueuesAccounted
<1>1. \A e \in qpool : odpQueue[e] = "none"
  <2>1. qpool \subseteq Elems BY DEF QInv, QTypeInv
  <2> QED BY <2>1 DEF QInv, ElemsInv, ElemOK, InPoolOK
<1>2. ASSUME NEW e \in Stable, qelem[e].type \in {"sched", "unsched", "output"}
      PROVE  odpQueue[e] # "none"
  <2>1. e \in Used /\ StageOf(e) = "none" /\ QueueOK(e) BY StableIs
  <2> QED BY <1>2, <2>1 DEF QueueOK, NoOdpAt
<1> QED BY <1>1, <1>2 DEF OdpQueuesAccounted

\* Output queues have an index of their own.
LEMMA OutputsAre ==
  ASSUME QInv
  PROVE  OutputIndexes
<1> DEFINE outs == {e \in Stable : qelem[e].type = "output" /\ e \notin half}
<1>1. outs \subseteq Holding
  <2>1. ASSUME NEW e \in outs PROVE e \in Holding
    <3>1. e \in Elems /\ e \in Used /\ StageOf(e) = "none" /\ qelem[e].type = "output" BY StableIs
    <3> QED BY <3>1 DEF Holding, OutAt
  <2> QED BY <2>1
<1>2. \A e, f \in outs : qelem[e].idx = qelem[f].idx => e = f BY <1>1 DEF QInv, OutInv
<1>3. ASSUME NoCalls
      PROVE  /\ outCount = Cardinality(outs)
             /\ FreeOutIdx = DOMAIN idxFree \ {qelem[e].idx : e \in outs}
  <2>1. ASSUME NEW e \in OutAll PROVE e \in outs
    <3>1. e \in Elems /\ e \in Used /\ qelem[e].type = "output" BY DEF OutAll, OutAt
    <3>2. ElemOK(e) /\ StageOf(e) = "none" BY <1>3, <3>1, StagesEnd DEF QInv, ElemsInv
    <3>3. e \in Queues BY <3>1, <3>2, SetsAre DEF ElemOK, AggrOK
    <3>4. e \notin half BY <3>1, <3>2, <3>3 DEF ElemOK, QueueOK
    <3> QED BY <1>3, <3>1, <3>3, <3>4, StagesEnd
  <2>2. OutAll = outs /\ Holding = outs BY <1>1, <2>1 DEF OutAll, Holding
  <2>3. idxFree \in [0..MaxOutput - 1 -> BOOLEAN] BY DEF QInv, QTypeInv
  <2>4. \A i \in 0..MaxOutput - 1 : idxFree[i] <=> \A e \in outs : qelem[e].idx # i
    BY <2>2 DEF QInv, OutInv
  <2>5. FreeOutIdx = DOMAIN idxFree \ {qelem[e].idx : e \in outs}
    <3>1. DOMAIN idxFree = 0..MaxOutput - 1 BY <2>3
    <3>2. ASSUME NEW i \in 0..MaxOutput - 1
          PROVE  idxFree[i] <=> i \notin {qelem[e].idx : e \in outs}
      BY <2>4
    <3> QED BY <3>1, <3>2 DEF FreeOutIdx
  <2> QED BY <2>2, <2>5 DEF QInv, OutInv
<1> QED BY <1>2, <1>3 DEF OutputIndexes

\* The list of an EO names queues that are there.
LEMMA ListIs ==
  ASSUME QInv
  PROVE  GroupListMatches
<1>1. ~nullNode /\ numQueues = Cardinality(listed) BY DEF QInv, ListInv
<1>2. ASSUME NEW e \in Stable, qelem[e].type = "sched", e \notin half PROVE e \in listed
  <2>1. e \in Used /\ StageOf(e) = "none" /\ QueueOK(e) BY StableIs
  <2> QED BY <1>2, <2>1 DEF QueueOK
<1>3. ASSUME NEW e \in listed PROVE e \in Used /\ qelem[e].type = "sched"
  <2>1. e \in Elems BY DEF QInv, QTypeInv
  <2>2. ElemOK(e) BY <2>1 DEF QInv, ElemsInv
  <2>3. e \in Used BY <2>1, <2>2 DEF ElemOK, InPoolOK, Used
  <2>4. e \in Queues BY <2>1, <2>2, SetsAre DEF ElemOK, AggrOK
  <2> QED BY <2>2, <2>3, <2>4 DEF ElemOK, QueueOK
<1> QED BY <1>1, <1>2, <1>3 DEF GroupListMatches

\* Aggregators have the state of their queue.
LEMMA AggrsFollow ==
  ASSUME QInv
  PROVE  AggrFollowsParent
<1>1. SUFFICES ASSUME NEW k \in Used \cap AggrQ, NEW p, p = qelem[k].parent
               PROVE  /\ Accepts(k) => p \in Used /\ k \in Set(qelem[p].aggr)
                      /\ p \in Stable => (Accepts(k) <=> Accepts(p))
  BY DEF AggrFollowsParent
<1>2. k \in Elems /\ k \in Used /\ k \in AggrQ BY DEF Used
<1>3. AggrOK(k) /\ AggrIn(k) BY <1>2 DEF QInv, ElemsInv, ElemOK, TreeInv
<1>4. Accepts(k) <=> Sends(k)
  <2>1. qelem[k].type # "output" BY <1>2, <1>3 DEF AggrOK
  <2> QED BY <1>2, <2>1 DEF Accepts, Sends
<1>5. ASSUME Accepts(k) PROVE p \in Used /\ k \in Set(qelem[p].aggr)
  <2>1. p # NoQueue BY <1>1, <1>2, <1>3, <1>5 DEF AggrOK, Accepts
  <2> QED BY <1>1, <1>3, <2>1 DEF AggrIn, Kids
<1>6. ASSUME p \in Stable PROVE Accepts(k) <=> Accepts(p)
  <2>1. p \in Queues /\ p \in Used /\ StageOf(p) = "none" /\ QueueOK(p) /\ p # NoQueue BY <1>6, StableIs
  <2>2. k \in Kids(p) BY <1>1, <1>3, <2>1 DEF AggrIn
  <2>3. KidsOK(p) BY <2>1 DEF QInv, TreeInv
  <2>4. Sends(k) <=> Sends(p) BY <2>1, <2>2, <2>3 DEF KidsOK
  <2>5. qelem[p].aggr # <<>> BY <2>2 DEF Kids, Set
  <2>6. qelem[p].type # "output" BY <2>1, <2>5 DEF QueueOK
  <2>7. Accepts(p) <=> Sends(p) BY <2>1, <2>6 DEF Accepts, Sends
  <2> QED BY <1>4, <2>4, <2>7
<1> QED BY <1>5, <1>6

\* Elements, ODP queues, output indexes, the list of the queue group and
\* aggregators are accounted for in every state that any number of cores reach by
\* creating and deleting queues (queue_create(), queue_delete()), whichever of the
\* calls fail, but for the storage of output functions, and as long as no delete
\* that failed is tried again and packet input queues stay; and the priority map
\* (queue_init_prio_map()) keeps the order of priorities.
THEOREM QueueCorrect ==
  ASSUME ~DeleteAgain, ~DeletePktin, "output" \notin QFails
  PROVE  QueueSpec => []QueueInv
<1>1. QueueInit => QInv BY QInitIs
<1>2. QInv /\ [QueueNext]_qvars => QInv' BY QStepIs
<1>3. QInv => QueueInv
  <2>1. ASSUME QInv PROVE QueueInv
    <3>1. PrioMapMonotone BY <2>1 DEF QInv
    <3> QED BY <2>1, <3>1, QTypesAre, ElemsAre, OdpAre, OutputsAre, ListIs, AggrsFollow DEF QueueInv
  <2> QED BY <2>1
<1> QED BY <1>1, <1>2, <1>3, PTL DEF QueueSpec
=============================================================================
