-------------------------------- MODULE Pool --------------------------------
(***************************************************************************)
(* EM event pools: em_pool.c, event_machine_pool.c, em_pool_inline.h, the  *)
(* free list of pool elements (misc/objpool.c) and the choice of a subpool *)
(* in event_alloc_buf(), event_alloc_pkt() and event_alloc_vector().       *)
(*                                                                         *)
(* An EM pool is a table element with up to four ODP pools (subpools), and *)
(* a table maps the index of an ODP pool back to the EM pool and subpool.  *)
(* Only the free lists have locks: em_pool_create() and em_pool_delete()   *)
(* run on several cores at once, so each is a sequence of steps, one per   *)
(* access to state that other cores see.  pcall[c] is where core c is.     *)
(***************************************************************************)
EXTENDS Integers, FiniteSets, FiniteSetsExt, Functions, Sequences

CONSTANTS
  NumCores,    \* EM-cores, numbered from 0
  NumPools,    \* EM_CONFIG_POOLS
  NumLists,    \* subpools of the object pool, MIN(4, OBJSUBPOOLS_MAX)
  OdpIdx,      \* indices ODP gives to its pools
  Cfgs,        \* subpool configurations the application uses
  Startups,    \* startup_pools.conf: the configurations that may be given
  PoolFails,   \* odp_pool_create() may fail
  Exclusive,   \* no pool is created while another is deleted or fails to be created
  MaxCreates   \* bound: em_pool_create() calls of the application

PoolCores   == 0 .. NumCores - 1
Handles == 1 .. NumPools
Undef   == 0        \* EM_POOL_UNDEF
Default == 1        \* EM_POOL_DEFAULT
NoIdx   == -1       \* ODP_POOL_INVALID
NoMap   == [pool |-> Undef, sub |-> 0]

\* A subpool configuration: a sequence of [size, num]; a startup pool: its
\* configuration and the handle it asks for
ASSUME PoolAssumption ==
  /\ NumCores \in Nat \ {0} /\ NumPools \in Nat \ {0} /\ NumLists \in Nat \ {0}
  /\ OdpIdx \subseteq Nat /\ IsFiniteSet(OdpIdx)
  /\ Cfgs \subseteq Seq([size : Nat, num : Nat]) \ {<<>>}
  /\ Startups \subseteq Seq([req : 0 .. NumPools, cfg : Cfgs])
  /\ PoolFails \in BOOLEAN /\ Exclusive \in BOOLEAN /\ MaxCreates \in Nat

VARIABLES
  free,     \* elements in the object pool
  pool,     \* mpool_elem_t: name and subpools (ODP pool index, size)
  odp,      \* the ODP pools
  odp2em,   \* pool_subpool_odp2em[]
  pcall,     \* the pool call each core is in
  boot,     \* pool_init() and pool_term(): phase, startup pools, progress
  creates   \* number of create calls of the application

pvars == <<free, pool, odp, odp2em, pcall, boot, creates>>

NoPoolCall == [pc |-> "none", h |-> Undef, i |-> 0, cfg |-> <<>>, name |-> "none", idx |-> NoIdx]
NoPool     == [name |-> "none", subs |-> <<>>]
NoOdp      == [live |-> FALSE, size |-> 0, num |-> 0, used |-> 0, want |-> 0]

Busy(pcs) == \E c \in PoolCores : pcall[c].pc \in pcs
Creating  == {"scan", "sub", "map"}
Deleting  == {"destroy", "clear"}

\* pool_init() up to the reservation of EM_POOL_DEFAULT: all elements but the
\* default pool are in the object pool
PoolInit ==
  /\ free = Handles \ {Default}
  /\ pool = [h \in Handles |-> NoPool]
  /\ odp = [x \in OdpIdx |-> NoOdp]
  /\ odp2em = [x \in OdpIdx |-> NoMap]
  /\ pcall = [c \in PoolCores |-> NoPoolCall]
  /\ \E s \in Startups : boot = [phase |-> "init", conf |-> s, next |-> 1, dflt |-> FALSE]
  /\ creates = 0

-----------------------------------------------------------------------------
(* The object pool *)

\* i % objpool_subpools in pool_init(): the list an element always returns to
HomeList(h) == (h - 1) % NumLists
InList(l)   == {h \in free : HomeList(h) = l}

\* The i-th list that objpool_rem() looks at for core c
ScanList(c, i) == (c + i) % NumLists

-----------------------------------------------------------------------------
(* Create *)

\* Mutant: the configuration is used as given
SortCfg_AsGiven(cfg) == {cfg}

\* sort_pool_cfg(): the orders of ascending size, of which it makes one
SortCfg(cfg) ==
  {s \in {[i \in DOMAIN cfg |-> cfg[p[i]]] : p \in Bijection(DOMAIN cfg, DOMAIN cfg)} :
     \A i, j \in DOMAIN s : i < j => s[i].size <= s[j].size}

\* The element is reserved: name and sorted configuration are stored
Reserve(c, h, cfg, name) ==
  /\ free' = free \ {h}
  /\ pool' = [pool EXCEPT ![h] = [name |-> name, subs |-> <<>>]]
  /\ \E s \in SortCfg(cfg) :
       pcall' = [pcall EXCEPT ![c] = [NoPoolCall EXCEPT !.pc = "sub", !.h = h, !.i = 1,
                                                      !.cfg = s, !.name = name]]

\* pool_create() with a requested handle: objpool_rem_elem(), under its lock
CreateRequested(c, h, cfg, name) ==
  /\ h \in free
  /\ Reserve(c, h, cfg, name)

\* ... and without: objpool_rem() goes through the lists one lock at a time
CreateAny(c, cfg, name) ==
  /\ pcall' = [pcall EXCEPT ![c] = [NoPoolCall EXCEPT !.pc = "scan", !.cfg = cfg, !.name = name]]
  /\ UNCHANGED <<free, pool>>

Scan(c) ==
  LET r == pcall[c]  l == ScanList(c, r.i) IN
  /\ r.pc = "scan"
  /\ \/ \E h \in InList(l) : Reserve(c, h, r.cfg, r.name)
     \/ /\ InList(l) = {}
        /\ pcall' = [pcall EXCEPT ![c] = IF r.i + 1 = NumLists THEN NoPoolCall
                                       ELSE [r EXCEPT !.i = r.i + 1]]
        /\ UNCHANGED <<free, pool>>
  /\ UNCHANGED <<odp, odp2em, boot, creates>>

\* create_subpools(): one odp_pool_create(); ODP takes its first free index.
\* Every pool that ODP creates has one, so odp_pool_index() does not fail here
\* (em_pool.c:1977) nor for the same pool in pool_delete() (em_pool.c:2139).
FreeIdx == {x \in OdpIdx : ~odp[x].live}

CreateSub(c) ==
  LET k == pcall[c].cfg[pcall[c].i]  x == Min(FreeIdx) IN
  /\ pcall[c].pc = "sub" /\ FreeIdx # {}
  /\ odp' = [odp EXCEPT ![x] = [NoOdp EXCEPT !.live = TRUE, !.size = k.size, !.num = k.num]]
  /\ pool' = [pool EXCEPT ![pcall[c].h].subs = Append(@, [idx |-> x, size |-> k.size])]
  /\ pcall' = [pcall EXCEPT ![c].pc = "map", ![c].idx = x]
  /\ UNCHANGED <<free, odp2em, boot, creates>>

\* Mutant: the element is given back without deleting the subpools
CreateSubFail_FreeOnly(c) ==
  /\ pcall[c].pc = "sub"
  /\ PoolFails \/ FreeIdx = {}
  /\ Exclusive => \A d \in PoolCores \ {c} : pcall[d].pc \notin Creating
  /\ free' = free \cup {pcall[c].h}
  /\ pool' = [pool EXCEPT ![pcall[c].h] = NoPool]
  /\ pcall' = [pcall EXCEPT ![c] = NoPoolCall]
  /\ UNCHANGED <<odp, odp2em, boot, creates>>

\* ... or it fails, and pool_create() deletes the subpools made so far
CreateSubFail(c) ==
  /\ pcall[c].pc = "sub"
  /\ PoolFails \/ FreeIdx = {}
  /\ Exclusive => \A d \in PoolCores \ {c} : pcall[d].pc \notin Creating
  /\ pcall' = [pcall EXCEPT ![c] = [NoPoolCall EXCEPT !.pc = "destroy", !.h = pcall[c].h, !.i = 1]]
  /\ UNCHANGED <<free, pool, odp, odp2em, boot, creates>>

\* ... then the mapping from the ODP pool to the EM pool is stored
CreateMap(c) ==
  LET r == pcall[c] IN
  /\ r.pc = "map"
  /\ odp2em' = [odp2em EXCEPT ![r.idx] = [pool |-> r.h, sub |-> r.i]]
  /\ pcall' = [pcall EXCEPT ![c] = IF r.i = Len(r.cfg) THEN NoPoolCall
                                 ELSE [r EXCEPT !.pc = "sub", !.i = r.i + 1]]
  /\ UNCHANGED <<free, pool, odp, boot, creates>>

-----------------------------------------------------------------------------
(* Delete *)

\* pool_delete(): an element that is not in the object pool
DeleteStart(c, h) ==
  /\ h \notin free
  /\ pcall' = [pcall EXCEPT ![c] = [NoPoolCall EXCEPT !.pc = "destroy", !.h = h, !.i = 1]]
  /\ UNCHANGED <<free, pool, odp, odp2em, creates>>

\* One odp_pool_destroy(), which fails while events of the subpool are in
\* use: the delete ends there.  A subpool destroyed before also ends it.
Destroy(c) ==
  LET h == pcall[c].h  i == pcall[c].i  x == pool[h].subs[i].idx IN
  /\ pcall[c].pc = "destroy" /\ i <= Len(pool[h].subs)
  /\ \/ /\ x = NoIdx \/ odp[x].used > 0
        /\ pcall' = [pcall EXCEPT ![c] = NoPoolCall]
        /\ UNCHANGED <<pool, odp>>
     \/ /\ x # NoIdx /\ odp[x].used = 0
        /\ odp' = [odp EXCEPT ![x] = NoOdp]
        /\ pool' = [pool EXCEPT ![h].subs[i] = [idx |-> NoIdx, size |-> 0]]
        /\ pcall' = [pcall EXCEPT ![c].pc = "clear", ![c].idx = x]
  /\ UNCHANGED <<free, odp2em, boot, creates>>

\* Mutant: the mapping stays
Clear_Keep(c) ==
  /\ pcall[c].pc = "clear"
  /\ pcall' = [pcall EXCEPT ![c].pc = "destroy", ![c].i = @ + 1]
  /\ UNCHANGED <<free, pool, odp, odp2em, boot, creates>>

\* ... and the mapping of its index is cleared
Clear(c) ==
  /\ pcall[c].pc = "clear"
  /\ odp2em' = [odp2em EXCEPT ![pcall[c].idx] = NoMap]
  /\ pcall' = [pcall EXCEPT ![c].pc = "destroy", ![c].i = @ + 1]
  /\ UNCHANGED <<free, pool, odp, boot, creates>>

\* The end of pool_delete(): pool_free()
DeleteEnd(c) ==
  LET h == pcall[c].h IN
  /\ pcall[c].pc = "destroy" /\ pcall[c].i > Len(pool[h].subs)
  /\ pool' = [pool EXCEPT ![h] = NoPool]
  /\ free' = free \cup {h}
  /\ pcall' = [pcall EXCEPT ![c] = NoPoolCall]
  /\ UNCHANGED <<odp, odp2em, boot, creates>>

-----------------------------------------------------------------------------
(* Events *)

\* pool_find_subpool(): the first subpool that is not too small
FindSubpool(h, size) == {i \in DOMAIN pool[h].subs : size <= pool[h].subs[i].size}

\* Mutant: one event too many
AllocFrom_OneMore(h, size) ==
  LET from == Min(FindSubpool(h, size)) IN
  {i \in from .. Len(pool[h].subs) :
     LET x == pool[h].subs[i].idx IN x # NoIdx /\ odp[x].used <= odp[x].num}

\* ... and the loop over the subpools from there to one that has an event left
AllocFrom(h, size) ==
  LET from == Min(FindSubpool(h, size)) IN
  {i \in from .. Len(pool[h].subs) :
     LET x == pool[h].subs[i].idx IN x # NoIdx /\ odp[x].used < odp[x].num}

\* em_alloc() from a pool that the application has created
EventAlloc(h, size) ==
  /\ FindSubpool(h, size) # {} /\ AllocFrom(h, size) # {}
  /\ LET x == pool[h].subs[Min(AllocFrom(h, size))].idx IN
     odp' = [odp EXCEPT ![x].used = @ + 1, ![x].want = Max({@, size})]
  /\ UNCHANGED <<free, pool, odp2em, pcall, boot, creates>>

\* em_free()
EventFree(x) ==
  /\ odp[x].used > 0
  /\ odp' = [odp EXCEPT ![x].used = @ - 1, ![x].want = IF odp[x].used = 1 THEN 0 ELSE @]
  /\ UNCHANGED <<free, pool, odp2em, pcall, boot, creates>>

-----------------------------------------------------------------------------
(* pool_init(), the application, pool_term() *)

IsDefault(conf) == conf.req = Default

\* Every startup pool so far was created, and the default pool is there or reserved
BootOk ==
  Cardinality(Handles \ free) =
    1 + Cardinality({k \in 1 .. boot.next - 1 : boot.conf[k].req # Default})

\* The next startup pool; one that is the default pool replaces the reservation
BootStartup ==
  LET conf == boot.conf[boot.next] IN
  /\ boot.phase = "init" /\ pcall[0].pc = "none" /\ BootOk /\ boot.next <= Len(boot.conf)
  /\ boot' = [boot EXCEPT !.next = @ + 1, !.dflt = @ \/ IsDefault(conf)]
  /\ \/ IsDefault(conf) /\ Reserve(0, Default, conf.cfg, "default")
     \/ ~IsDefault(conf) /\ conf.req # Undef /\ CreateRequested(0, conf.req, conf.cfg, "startup")
     \/ ~IsDefault(conf) /\ conf.req \notin free \cup {Undef} /\ UNCHANGED <<free, pool, pcall>>
     \/ conf.req = Undef /\ CreateAny(0, conf.cfg, "startup")
  /\ UNCHANGED <<odp, odp2em, creates>>

\* Mutant: the default pool does not ask for its handle
BootDefault_AnyHandle ==
  /\ boot.phase = "init" /\ pcall[0].pc = "none" /\ BootOk /\ boot.next > Len(boot.conf)
  /\ ~boot.dflt
  /\ boot' = [boot EXCEPT !.dflt = TRUE]
  /\ free' = free \cup {Default}
  /\ \E cfg \in Cfgs : pcall' = [pcall EXCEPT ![0] = [NoPoolCall EXCEPT !.pc = "scan", !.cfg = cfg,
                                                                     !.name = "default"]]
  /\ UNCHANGED <<pool, odp, odp2em, creates>>

\* The default pool if no startup pool was, then the application runs
BootDefault ==
  /\ boot.phase = "init" /\ pcall[0].pc = "none" /\ BootOk /\ boot.next > Len(boot.conf)
  /\ ~boot.dflt
  /\ boot' = [boot EXCEPT !.dflt = TRUE]
  /\ \E cfg \in Cfgs : Reserve(0, Default, cfg, "default")
  /\ UNCHANGED <<odp, odp2em, creates>>

\* pool_init() ends, at the first pool that could not be created
BootEnd ==
  /\ boot.phase = "init" /\ pcall[0].pc = "none"
  /\ ~BootOk \/ (boot.next > Len(boot.conf) /\ boot.dflt)
  /\ boot' = [boot EXCEPT !.phase = IF BootOk THEN "run" ELSE "failed"]
  /\ UNCHANGED <<free, pool, odp, odp2em, pcall, creates>>

\* em_pool_create() and em_pool_delete() of the application: it deletes a pool
\* once, when no event of it is in use, and keeps the default pool
InUse(h) == \E i \in DOMAIN pool[h].subs :
  pool[h].subs[i].idx # NoIdx /\ odp[pool[h].subs[i].idx].used > 0

AppCreate(c, h, cfg) ==
  /\ boot.phase = "run" /\ pcall[c].pc = "none" /\ creates < MaxCreates
  /\ Exclusive => ~Busy(Deleting)
  /\ creates' = creates + 1
  /\ IF h = Undef THEN CreateAny(c, cfg, "app") ELSE CreateRequested(c, h, cfg, "app")
  /\ UNCHANGED <<odp, odp2em, boot>>

AppDelete(c, h) ==
  /\ boot.phase = "run" /\ pcall[c].pc = "none" /\ h # Default
  /\ \A d \in PoolCores : pcall[d].h # h
  /\ ~InUse(h)
  /\ Exclusive => ~Busy(Creating)
  /\ DeleteStart(c, h)
  /\ UNCHANGED boot

AppAlloc(h, size) ==
  /\ boot.phase = "run" /\ h \notin free /\ \A c \in PoolCores : pcall[c].h # h
  /\ EventAlloc(h, size)

AppFree(x) == boot.phase = "run" /\ EventFree(x)

\* pool_term(): deletes every pool that is there, going on after a failure
TermBegin ==
  /\ boot.phase = "run" /\ \A c \in PoolCores : pcall[c].pc = "none"
  /\ boot' = [boot EXCEPT !.phase = "term", !.next = 1]
  /\ UNCHANGED <<free, pool, odp, odp2em, pcall, creates>>

TermNext ==
  /\ boot.phase = "term" /\ pcall[0].pc = "none" /\ boot.next <= NumPools
  /\ boot' = [boot EXCEPT !.next = @ + 1]
  /\ IF boot.next \in free
     THEN UNCHANGED <<free, pool, odp, odp2em, pcall, creates>>
     ELSE DeleteStart(0, boot.next)

\* Mutant: the last pool of the table is not looked at
TermEnd_OffByOne ==
  /\ boot.phase = "term" /\ pcall[0].pc = "none" /\ boot.next > NumPools - 1
  /\ boot' = [boot EXCEPT !.phase = "done"]
  /\ UNCHANGED <<free, pool, odp, odp2em, pcall, creates>>

TermEnd ==
  /\ boot.phase = "term" /\ pcall[0].pc = "none" /\ boot.next > NumPools
  /\ boot' = [boot EXCEPT !.phase = "done"]
  /\ UNCHANGED <<free, pool, odp, odp2em, pcall, creates>>

Sizes == UNION {{cfg[i].size : i \in DOMAIN cfg} : cfg \in Cfgs}

PoolNext ==
  \/ BootStartup \/ BootDefault \/ BootEnd
  \/ TermBegin \/ TermNext \/ TermEnd
  \/ \E c \in PoolCores :
       \/ Scan(c) \/ CreateSub(c) \/ CreateSubFail(c) \/ CreateMap(c)
       \/ Destroy(c) \/ Clear(c) \/ DeleteEnd(c)
       \/ \E h \in Handles \cup {Undef}, cfg \in Cfgs : AppCreate(c, h, cfg)
       \/ \E h \in Handles : AppDelete(c, h)
  \/ \E h \in Handles, size \in Sizes : AppAlloc(h, size)
  \/ \E x \in OdpIdx : AppFree(x)

PoolSpec == PoolInit /\ [][PoolNext]_pvars

-----------------------------------------------------------------------------
(* Properties *)

\* Types of the pool table, the mapping and the ODP pools, of which no more
\* events are in use than they have
PoolTypeOK ==
  /\ free \subseteq Handles
  /\ \A h \in Handles : \A i \in DOMAIN pool[h].subs : pool[h].subs[i].idx \in OdpIdx \cup {NoIdx}
  /\ \A x \in OdpIdx : /\ odp[x].live \in BOOLEAN
                       /\ odp[x].used \in 0 .. odp[x].num
                       /\ odp2em[x].pool \in 0 .. NumPools
  /\ boot.phase \in {"init", "run", "term", "done", "failed"}

\* Core c is between making or destroying the ODP pool x and writing its mapping
Unmapped(x) == \E c \in PoolCores : pcall[c].pc \in {"map", "clear"} /\ pcall[c].idx = x

\* The mapping from ODP pools to EM pools is that of the pools that exist,
\* however the creates of several cores overlap, or their deletes and the
\* failures of creates: em_event_get_pool() finds the pool of every event, and
\* an index that ODP uses again has no mapping left from the pool before.  A
\* create that overlaps a delete or a failure is excluded by Exclusive; without
\* it pool_delete() clears the mapping of the new pool (em_pool.c:2131-2141).
MappingMatchesPools ==
  \A x \in OdpIdx : ~Unmapped(x) =>
    LET owners == {p \in Handles \X (1 .. Cardinality(OdpIdx)) :
                     p[2] \in DOMAIN pool[p[1]].subs /\ pool[p[1]].subs[p[2]].idx = x}
    IN IF odp2em[x] = NoMap THEN owners = {} ELSE owners = {<<odp2em[x].pool, odp2em[x].sub>>}

\* No ODP pool is lost: each belongs to one subpool of a pool that is not free.
NoOdpPoolLost ==
  \A x \in OdpIdx : odp[x].live =>
    Cardinality({h \in Handles \ free :
                   \E i \in DOMAIN pool[h].subs : pool[h].subs[i].idx = x}) = 1

\* An event is never smaller than was asked for, whichever of the subpools of
\* its pool it comes from when the best fitting ones are empty.
EventsFit == \A x \in OdpIdx : odp[x].used > 0 => odp[x].want <= odp[x].size

\* EM_POOL_DEFAULT is the default pool: no startup pool and no create without
\* a handle gets its element.
DefaultIsDefault ==
  /\ boot.phase = "run" => Default \notin free /\ pool[Default].name = "default"
  /\ \A h \in Handles \ {Default} : pool[h].name # "default"

\* After pool_term() a pool is left only if its own events were still in use.
TermLeavesOnlyBusy == boot.phase = "done" => \A h \in Handles \ free : InUse(h)

\* The pool table, the mapping from ODP pools and the ODP pools agree, from
\* pool_init() to pool_term(), and events come from subpools they fit in.
PoolInv ==
  /\ PoolTypeOK /\ MappingMatchesPools /\ NoOdpPoolLost /\ EventsFit /\ DefaultIsDefault
  /\ TermLeavesOnlyBusy
=============================================================================
