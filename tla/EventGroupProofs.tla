-------------------------- MODULE EventGroupProofs --------------------------
(***************************************************************************)
(* The safety properties of EventGroup, for any number of cores, groups    *)
(* and events, any counter width, generation width and batch size.         *)
(*                                                                         *)
(* The invariant IInv is proved conjunct by conjunct: each ...Step lemma   *)
(* shows that every action keeps one conjunct, given the conjuncts before  *)
(* it.  The lemmas on the generation say what the EGRP_GEN_BITS bit-field  *)
(* does to a running cycle number; the lemmas on slots count the events    *)
(* that cores hold.                                                        *)
(***************************************************************************)
EXTENDS EventGroup, FiniteSetTheorems, TLAPS

(* Quotient and remainder are unique. *)
LEMMA DivUnique ==
    ASSUME NEW m \in Nat, m > 0, NEW q \in Int, NEW p \in Int,
           NEW r \in 0..(m-1), NEW s \in 0..(m-1), m * q + r = m * p + s
    PROVE  q = p /\ r = s
<1>1. m * (q - p) = s - r OBVIOUS
<1>2. ~(q - p >= 1)
  <2> SUFFICES ASSUME q - p >= 1 PROVE FALSE OBVIOUS
  <2>1. m * (q - p) >= m OBVIOUS
  <2> QED BY <1>1, <2>1
<1>3. ~(q - p <= -1)
  <2> SUFFICES ASSUME q - p <= -1 PROVE FALSE OBVIOUS
  <2>1. m * (q - p) <= -m OBVIOUS
  <2> QED BY <1>1, <2>1
<1>4. q = p BY <1>2, <1>3
<1> QED BY <1>4

(* What the code's bit-field of EGRP_GEN_BITS does to a running number. *)
LEMMA GenOf ==
    ASSUME NEW a \in Nat
    PROVE  /\ a \div GenMod \in Nat /\ a % GenMod \in 0..(GenMod-1)
           /\ a = GenMod * (a \div GenMod) + (a % GenMod)
BY ConstAssumption

(* Cycle numbers less than GenMod apart have different generations. *)
LEMMA GenSeparates ==
    ASSUME NEW a \in Nat, NEW b \in Nat, a <= b, b < a + GenMod, a % GenMod = b % GenMod
    PROVE  a = b
<1> DEFINE p == a \div GenMod
           q == b \div GenMod
<1>1. p \in Nat /\ q \in Nat /\ GenMod \in Nat /\ GenMod > 0 BY GenOf, ConstAssumption
<1>2. a = GenMod * p + (a % GenMod) /\ b = GenMod * q + (b % GenMod) BY GenOf
<1>3. a % GenMod \in 0..(GenMod-1) BY GenOf
<1> HIDE DEF p, q
<1>4. GenMod * q - GenMod * p = b - a BY <1>1, <1>2, <1>3
<1>5. GenMod * (q - p) = b - a BY <1>1, <1>4
<1>6. DEFINE d == b - a
<1>7. d \in 0..(GenMod-1) BY <1>1
<1>8. GenMod * (q - p) + 0 = GenMod * 0 + d BY <1>1, <1>5
<1>9. q - p \in Int /\ 0 \in 0..(GenMod-1) BY <1>1
<1> HIDE DEF d
<1>10. d = 0 BY <1>1, <1>7, <1>8, <1>9, DivUnique
<1> QED BY <1>10 DEF d

(* The successor of a generation is the generation of the successor. *)
LEMMA GenSucc ==
    ASSUME NEW a \in Nat
    PROVE  ((a % GenMod) + 1) % GenMod = (a + 1) % GenMod
<1> DEFINE r == a % GenMod
           q == a \div GenMod
           s == (r + 1) % GenMod
           u == (r + 1) \div GenMod
           t == (a + 1) % GenMod
           v == (a + 1) \div GenMod
<1>1. GenMod \in Nat /\ GenMod > 0 BY ConstAssumption
<1>2. q \in Nat /\ r \in 0..(GenMod-1) /\ a = GenMod * q + r BY GenOf
<1>3. r + 1 \in Nat /\ a + 1 \in Nat BY <1>2
<1>4. u \in Nat /\ s \in 0..(GenMod-1) /\ r + 1 = GenMod * u + s BY <1>3, GenOf
<1>5. v \in Nat /\ t \in 0..(GenMod-1) /\ a + 1 = GenMod * v + t BY <1>3, GenOf
<1> HIDE DEF r, q, s, u, t, v
<1>6. GenMod * q + GenMod * u = GenMod * (q + u) BY <1>1, <1>2, <1>4
<1>7. GenMod * (q + u) + s = GenMod * v + t BY <1>1, <1>2, <1>4, <1>5, <1>6
<1> DEFINE w == q + u
<1>8. w \in Int /\ v \in Int /\ GenMod * w + s = GenMod * v + t BY <1>2, <1>4, <1>5, <1>7
<1> HIDE DEF w
<1>9. w = v /\ s = t BY <1>1, <1>4, <1>5, <1>8, DivUnique
<1> QED BY <1>9 DEF r, s, t

(* A batch that leaves the queues is neither empty nor too large. *)
LEMMA BatchSize ==
    ASSUME NEW c \in Core, NEW B \in SUBSET Event, NEW e \in B, Receive(c, B, e)
    PROVE  Cardinality(B) \in 1..MaxBatch
<1>1. IsFiniteSet(B) BY ConstAssumption, FS_Subset
<1>2. Cardinality(B) \in Nat BY <1>1, FS_CardinalityType
<1>3. Cardinality(B) # 0 BY <1>1, FS_EmptySet
<1> QED BY <1>2, <1>3 DEF Receive

(* The slots of a set of cores are finite. *)
LEMMA SlotsFinite ==
    ASSUME NEW H \in SUBSET Core, NEW r \in [Core -> 0..MaxBatch]
    PROVE  IsFiniteSet(Slots(H, r)) /\ Cardinality(Slots(H, r)) \in Nat
<1>1. IsFiniteSet(1..MaxBatch) BY ConstAssumption, FS_Interval
<1>2. IsFiniteSet(Core \X (1..MaxBatch)) BY <1>1, ConstAssumption, FS_Product
<1>3. Slots(H, r) \in SUBSET (Core \X (1..MaxBatch)) BY DEF Slots
<1> QED BY <1>2, <1>3, FS_Subset, FS_CardinalityType

(* One more core adds as many slots as it received events. *)
LEMMA SlotsAdd ==
    ASSUME NEW H \in SUBSET Core, NEW c \in Core, c \notin H, NEW r \in [Core -> 0..MaxBatch]
    PROVE  Cardinality(Slots(H \cup {c}, r)) = Cardinality(Slots(H, r)) + r[c]
<1> DEFINE new == {c} \X (1..r[c])
<1>1. r[c] \in Nat /\ r[c] <= MaxBatch /\ MaxBatch \in Nat BY ConstAssumption
<1>2. IsFiniteSet({c}) /\ Cardinality({c}) = 1 BY FS_Singleton
<1>3. IsFiniteSet(1..r[c]) /\ Cardinality(1..r[c]) = r[c] BY <1>1, FS_Interval
<1>4. IsFiniteSet(new) /\ Cardinality(new) = r[c] BY <1>1, <1>2, <1>3, FS_Product
<1>5. Slots(H \cup {c}, r) = Slots(H, r) \cup new BY <1>1 DEF Slots
<1>6. Slots(H, r) \cap new = {} BY DEF Slots
<1>7. Cardinality(Slots(H, r) \cap new) = 0 BY <1>6, FS_EmptySet
<1>8. IsFiniteSet(Slots(H, r)) /\ Cardinality(Slots(H, r)) \in Nat BY SlotsFinite
<1> HIDE DEF new
<1>9. Cardinality(Slots(H, r) \cup new)
        = Cardinality(Slots(H, r)) + Cardinality(new) - Cardinality(Slots(H, r) \cap new)
      BY <1>4, <1>8, FS_Union
<1>10. Cardinality(Slots(H \cup {c}, r)) = Cardinality(Slots(H, r) \cup new) BY <1>5
<1> QED BY <1>1, <1>4, <1>7, <1>8, <1>9, <1>10

(* One core less. *)
LEMMA SlotsRemove ==
    ASSUME NEW H \in SUBSET Core, NEW c \in H, NEW r \in [Core -> 0..MaxBatch]
    PROVE  Cardinality(Slots(H, r)) = Cardinality(Slots(H \ {c}, r)) + r[c]
<1>1. (H \ {c}) \cup {c} = H OBVIOUS
<1>2. Cardinality(Slots((H \ {c}) \cup {c}, r)) = Cardinality(Slots(H \ {c}, r)) + r[c] BY SlotsAdd
<1> QED BY <1>1, <1>2

(* The slots only depend on the counts of the cores counted. *)
LEMMA SlotsSame ==
    ASSUME NEW H \in SUBSET Core, NEW r \in [Core -> 0..MaxBatch], NEW s \in [Core -> 0..MaxBatch],
           \A c \in H : r[c] = s[c]
    PROVE  Slots(H, r) = Slots(H, s)
BY DEF Slots

(* No core, no slots. *)
LEMMA SlotsNone ==
    ASSUME NEW r \in [Core -> 0..MaxBatch]
    PROVE  Cardinality(Slots({}, r)) = 0
BY FS_EmptySet DEF Slots

(* What the cores hold of a group is a finite number of events. *)
LEMMA HeldFinite ==
    ASSUME TypeOK, NEW g \in Group
    PROVE  Cardinality(Held(g)) \in Nat
BY SlotsFinite DEF TypeOK, Held, Holders

-----------------------------------------------------------------------------
(* Every step keeps the types and the widths of the counters. *)
LEMMA TypeStep ==
    ASSUME TypeOK, CoreInv, OwnerInv,
           [Next]_vars
    PROVE  TypeOK'
<1> USE DEF TypeOK, Counter, OpRec, Tables, PCs, NoNotif, Torn
<1>1. ASSUME NEW c \in Core, NEW g \in Group, EventGroupCreate(c, g) PROVE TypeOK'
  BY <1>1, ConstAssumption DEF EventGroupCreate, AppRuns, GroupAlloc, ZeroedCounter, histVars
<1>2. ASSUME NEW c \in Core, NEW g \in Group, EventGroupDelete(c, g) PROVE TypeOK'
  BY <1>2, ConstAssumption DEF EventGroupDelete, AppRuns, OwnerFree, OwnerSteps, Call, NoCounter,
     histVars
<1>3. ASSUME NEW c \in Core, EventGroupFree(c) PROVE TypeOK'
  BY <1>3, ConstAssumption DEF EventGroupFree, GroupFree, BackToApp, NoOp, Call, NoCounter,
     histVars, OwnerInv, OwnerSteps, ApplySteps
<1>4. ASSUME NEW c \in Core, NEW g \in Group, NEW n \in 1..CntMax, NEW t \in NotifArgs(g), EventGroupApply(c, g, n, t)
      PROVE  TypeOK'
  BY <1>4, ConstAssumption DEF EventGroupApply, AppRuns, OwnerFree, OwnerSteps, NoAncientTags,
     NotifArgs, Call, NoCounter, histVars
<1>5. ASSUME NEW c \in Core, ApplyBadState(c) PROVE TypeOK'
  BY <1>5, ConstAssumption DEF ApplyBadState, BackToApp, NoOp, Call, NoCounter, histVars,
     OwnerInv, OwnerSteps, ApplySteps
<1>6. ASSUME NEW c \in Core, ApplyLoad(c) PROVE TypeOK'
  BY <1>6, ConstAssumption DEF ApplyLoad, Loaded, Call, histVars, OwnerInv, OwnerSteps,
     ApplySteps
<1>7. ASSUME NEW c \in Core, ApplyWrite(c) PROVE TypeOK'
  BY <1>7, ConstAssumption DEF ApplyWrite, histVars, OwnerInv, OwnerSteps, ApplySteps
<1>8. ASSUME NEW c \in Core, ApplyStarts(c) PROVE TypeOK'
  BY <1>8, ConstAssumption DEF ApplyStarts, AppliedCounter, BackToApp, NoOp, Call, NoCounter,
     OwnerInv, OwnerSteps, ApplySteps
<1>9. ASSUME NEW c \in Core, ApplyRetries(c) PROVE TypeOK'
  BY <1>9, ConstAssumption DEF ApplyRetries, histVars, OwnerInv, OwnerSteps, ApplySteps
<1>10. ASSUME NEW c \in Core, NEW e \in Event, NEW g \in Group \cup {UNDEF}, SendGroup(c, e, g)
      PROVE  TypeOK'
  BY <1>10, ConstAssumption DEF SendGroup, AppRuns, EgrpTagEvent, histVars
<1>11. ASSUME NEW c \in Core, NEW B \in SUBSET Event, NEW e \in B, DispatchUntagged(c, B, e)
      PROVE  TypeOK'
  <2>1. Cardinality(B) \in 1..MaxBatch BY <1>11, BatchSize DEF DispatchUntagged
  <2> QED BY <1>11, <2>1, ConstAssumption DEF DispatchUntagged, Receive, SameEvgroup, NoHdr,
      histVars
<1>12. ASSUME NEW c \in Core, NEW B \in SUBSET Event, NEW e \in B, DispatchCounted(c, B, e)
      PROVE  TypeOK'
  <2>1. Cardinality(B) \in 1..MaxBatch BY <1>12, BatchSize DEF DispatchCounted
  <2> QED BY <1>12, <2>1, ConstAssumption DEF DispatchCounted, Receive, SameEvgroup, NoHdr,
      histVars, ValidPreCnt, TakePre
<1>13. ASSUME NEW c \in Core, NEW B \in SUBSET Event, NEW e \in B, DispatchExpired(c, B, e)
      PROVE  TypeOK'
  <2>1. Cardinality(B) \in 1..MaxBatch BY <1>13, BatchSize DEF DispatchExpired
  <2> QED BY <1>13, <2>1, ConstAssumption DEF DispatchExpired, Receive, SameEvgroup, NoHdr,
      histVars, ValidPreCnt, NoCur
<1>14. ASSUME NEW c \in Core, NEW n \in 1..CntMax, EventGroupIncrement(c, n) PROVE TypeOK'
  BY <1>14, ConstAssumption DEF EventGroupIncrement, IncrementFits, AddBoth
<1>15. ASSUME NEW c \in Core, NEW g \in Group, EventGroupAssign(c, g) PROVE TypeOK'
  BY <1>15, ConstAssumption DEF EventGroupAssign, TakePre, histVars
<1>16. ASSUME NEW c \in Core, EventGroupProcessingEnd(c) PROVE TypeOK'
  BY <1>16, ConstAssumption DEF EventGroupProcessingEnd, Call, NoCounter, histVars
<1>17. ASSUME NEW c \in Core, ReturnUncounted(c) PROVE TypeOK'
  BY <1>17, ConstAssumption DEF ReturnUncounted, histVars
<1>18. ASSUME NEW c \in Core, ReturnCounted(c) PROVE TypeOK'
  BY <1>18, ConstAssumption DEF ReturnCounted, Call, NoCounter, histVars
<1>19. ASSUME NEW c \in Core, PostExpired(c) PROVE TypeOK'
  BY <1>19, ConstAssumption DEF PostExpired, ValidPostCnt, CountDecrementReturns, NoCur,
     BackToApp, NoOp, Call, NoCounter, HandledBy, Handles, CoreInv, PostSteps
<1>20. ASSUME NEW c \in Core, PostLoad(c) PROVE TypeOK'
  BY <1>20, ConstAssumption DEF PostLoad, ValidPostCnt, Loaded, Call, histVars, CoreInv,
     PostSteps
<1>21. ASSUME NEW c \in Core, PostCopy(c) PROVE TypeOK'
  BY <1>21, ConstAssumption DEF PostCopy, TableReads, BeingWritten, Copied, Call, histVars,
     CoreInv, PostSteps
<1>22. ASSUME NEW c \in Core, PostRetry(c) PROVE TypeOK'
  BY <1>22, ConstAssumption DEF PostRetry, SameWord, Copied, Call, histVars, CoreInv, PostSteps
<1>23. ASSUME NEW c \in Core, PostCas(c) PROVE TypeOK'
  BY <1>23, ConstAssumption DEF PostCas, PostSwap, SameWord, DecrementedCounter, HandledBy,
     Handles, CountDecrementReturns, NoCur, BackToApp, NoOp, Call, NoCounter, CoreInv, PostSteps
<1>24. ASSUME NEW c \in Core, PostCasLast(c) PROVE TypeOK'
  BY <1>24, ConstAssumption DEF PostCasLast, PostSwap, SameWord, DecrementedCounter, HandledBy,
     Handles, CoreInv, PostSteps
<1>25. ASSUME NEW c \in Core, PostCasSilent(c) PROVE TypeOK'
  BY <1>25, ConstAssumption DEF PostCasSilent, PostSwap, SameWord, DecrementedCounter, HandledBy,
     Handles, CountDecrementReturns, NoCur, BackToApp, NoOp, Call, NoCounter, CoreInv, PostSteps
<1>26. ASSUME NEW c \in Core, SendNotifs(c) PROVE TypeOK'
  BY <1>26, ConstAssumption DEF SendNotifs, CountDecrementReturns, NoCur, BackToApp, NoOp, Call,
     NoCounter, CoreInv, PostSteps
<1>27. ASSUME NEW c \in Core, NEW g \in Group, EventGroupNotif(c, g) PROVE TypeOK'
  BY <1>27, ConstAssumption DEF EventGroupNotif, AppRuns, Call, NoCounter, histVars
<1>28. ASSUME NEW c \in Core, NotifCopy(c) PROVE TypeOK'
  <2>1. PICK t \in TableReads(op[c].g) : saved' = [saved EXCEPT ![c] = t] BY <1>28 DEF NotifCopy
  <2>2. t \in {Torn} \cup {notif[op[c].g]} BY DEF TableReads
  <2>3. op[c].g \in Group BY <1>28 DEF CoreInv, NotifCopy
  <2>4. saved' \in [Core -> Tables] BY <2>1, <2>2, <2>3
  <2> QED BY <1>28, <2>4 DEF NotifCopy, BackToApp, NoOp, Call, NoCounter, histVars
<1>29. ASSUME NEW c \in Core, NEW g \in Group, EventGroupAbort(c, g) PROVE TypeOK'
  BY <1>29, ConstAssumption DEF EventGroupAbort, AppRuns, ZeroedCounter, NoCur
<1>30. ASSUME NEW c \in Core, NEW g \in Group, EventGroupAbortLate(c, g) PROVE TypeOK'
  BY <1>30, ConstAssumption DEF EventGroupAbortLate, AppRuns, histVars
<1>31. CASE UNCHANGED vars
  BY <1>31 DEF vars, codeVars, histVars
<1> QED
  BY <1>1, <1>2, <1>3, <1>4, <1>5, <1>6, <1>7, <1>8, <1>9, <1>10, <1>11, <1>12, <1>13, <1>14,
     <1>15, <1>16, <1>17, <1>18, <1>19, <1>20, <1>21, <1>22, <1>23, <1>24, <1>25, <1>26, <1>27,
     <1>28, <1>29, <1>30, <1>31 DEF Next, CoreStep, AppCall, Dispatcher, Dispatch,
     ReceiveReturn, ApplyCas

(* Every step keeps the relation between a core's place and its current group. *)
LEMMA CoreInvStep ==
    ASSUME TypeOK, CoreInv,
           [Next]_vars
    PROVE  CoreInv'
<1> USE DEF TypeOK, Counter, OpRec, CoreInv, PostSteps, NoNotif
<1>1. ASSUME NEW c \in Core, NEW g \in Group, EventGroupCreate(c, g) PROVE CoreInv'
  BY <1>1, ConstAssumption DEF EventGroupCreate, AppRuns, GroupAlloc, ZeroedCounter, histVars
<1>2. ASSUME NEW c \in Core, NEW g \in Group, EventGroupDelete(c, g) PROVE CoreInv'
  BY <1>2, ConstAssumption DEF EventGroupDelete, AppRuns, OwnerFree, OwnerSteps, Call, NoCounter,
     histVars
<1>3. ASSUME NEW c \in Core, EventGroupFree(c) PROVE CoreInv'
  BY <1>3, ConstAssumption DEF EventGroupFree, GroupFree, BackToApp, NoOp, Call, NoCounter,
     histVars
<1>4. ASSUME NEW c \in Core, NEW g \in Group, NEW n \in 1..CntMax, NEW t \in NotifArgs(g), EventGroupApply(c, g, n, t)
      PROVE  CoreInv'
  BY <1>4, ConstAssumption DEF EventGroupApply, AppRuns, OwnerFree, OwnerSteps, NoAncientTags,
     NotifArgs, Call, NoCounter, histVars
<1>5. ASSUME NEW c \in Core, ApplyBadState(c) PROVE CoreInv'
  BY <1>5, ConstAssumption DEF ApplyBadState, BackToApp, NoOp, Call, NoCounter, histVars
<1>6. ASSUME NEW c \in Core, ApplyLoad(c) PROVE CoreInv'
  BY <1>6, ConstAssumption DEF ApplyLoad, Loaded, Call, histVars
<1>7. ASSUME NEW c \in Core, ApplyWrite(c) PROVE CoreInv'
  BY <1>7, ConstAssumption DEF ApplyWrite, histVars
<1>8. ASSUME NEW c \in Core, ApplyStarts(c) PROVE CoreInv'
  BY <1>8, ConstAssumption DEF ApplyStarts, AppliedCounter, BackToApp, NoOp, Call, NoCounter
<1>9. ASSUME NEW c \in Core, ApplyRetries(c) PROVE CoreInv'
  BY <1>9, ConstAssumption DEF ApplyRetries, histVars
<1>10. ASSUME NEW c \in Core, NEW e \in Event, NEW g \in Group \cup {UNDEF}, SendGroup(c, e, g)
      PROVE  CoreInv'
  BY <1>10, ConstAssumption DEF SendGroup, AppRuns, EgrpTagEvent, histVars
<1>11. ASSUME NEW c \in Core, NEW B \in SUBSET Event, NEW e \in B, DispatchUntagged(c, B, e)
      PROVE  CoreInv'
  <2>1. Cardinality(B) \in 1..MaxBatch BY <1>11, BatchSize DEF DispatchUntagged
  <2> QED BY <1>11, <2>1, ConstAssumption DEF DispatchUntagged, Receive, SameEvgroup, NoHdr,
      histVars
<1>12. ASSUME NEW c \in Core, NEW B \in SUBSET Event, NEW e \in B, DispatchCounted(c, B, e)
      PROVE  CoreInv'
  <2>1. Cardinality(B) \in 1..MaxBatch BY <1>12, BatchSize DEF DispatchCounted
  <2> QED BY <1>12, <2>1, ConstAssumption DEF DispatchCounted, Receive, SameEvgroup, NoHdr,
      histVars, ValidPreCnt, TakePre
<1>13. ASSUME NEW c \in Core, NEW B \in SUBSET Event, NEW e \in B, DispatchExpired(c, B, e)
      PROVE  CoreInv'
  <2>1. Cardinality(B) \in 1..MaxBatch BY <1>13, BatchSize DEF DispatchExpired
  <2> QED BY <1>13, <2>1, ConstAssumption DEF DispatchExpired, Receive, SameEvgroup, NoHdr,
      histVars, ValidPreCnt, NoCur
<1>14. ASSUME NEW c \in Core, NEW n \in 1..CntMax, EventGroupIncrement(c, n) PROVE CoreInv'
  BY <1>14, ConstAssumption DEF EventGroupIncrement, IncrementFits, AddBoth
<1>15. ASSUME NEW c \in Core, NEW g \in Group, EventGroupAssign(c, g) PROVE CoreInv'
  BY <1>15, ConstAssumption DEF EventGroupAssign, TakePre, histVars
<1>16. ASSUME NEW c \in Core, EventGroupProcessingEnd(c) PROVE CoreInv'
  BY <1>16, ConstAssumption DEF EventGroupProcessingEnd, Call, NoCounter, histVars
<1>17. ASSUME NEW c \in Core, ReturnUncounted(c) PROVE CoreInv'
  BY <1>17, ConstAssumption DEF ReturnUncounted, histVars
<1>18. ASSUME NEW c \in Core, ReturnCounted(c) PROVE CoreInv'
  BY <1>18, ConstAssumption DEF ReturnCounted, Call, NoCounter, histVars
<1>19. ASSUME NEW c \in Core, PostExpired(c) PROVE CoreInv'
  BY <1>19, ConstAssumption DEF PostExpired, ValidPostCnt, CountDecrementReturns, NoCur,
     BackToApp, NoOp, Call, NoCounter, HandledBy, Handles
<1>20. ASSUME NEW c \in Core, PostLoad(c) PROVE CoreInv'
  BY <1>20, ConstAssumption DEF PostLoad, ValidPostCnt, Loaded, Call, histVars
<1>21. ASSUME NEW c \in Core, PostCopy(c) PROVE CoreInv'
  BY <1>21, ConstAssumption DEF PostCopy, TableReads, BeingWritten, Copied, Call, histVars
<1>22. ASSUME NEW c \in Core, PostRetry(c) PROVE CoreInv'
  BY <1>22, ConstAssumption DEF PostRetry, SameWord, Copied, Call, histVars
<1>23. ASSUME NEW c \in Core, PostCas(c) PROVE CoreInv'
  BY <1>23, ConstAssumption DEF PostCas, PostSwap, SameWord, DecrementedCounter, HandledBy,
     Handles, CountDecrementReturns, NoCur, BackToApp, NoOp, Call, NoCounter
<1>24. ASSUME NEW c \in Core, PostCasLast(c) PROVE CoreInv'
  BY <1>24, ConstAssumption DEF PostCasLast, PostSwap, SameWord, DecrementedCounter, HandledBy,
     Handles
<1>25. ASSUME NEW c \in Core, PostCasSilent(c) PROVE CoreInv'
  BY <1>25, ConstAssumption DEF PostCasSilent, PostSwap, SameWord, DecrementedCounter, HandledBy,
     Handles, CountDecrementReturns, NoCur, BackToApp, NoOp, Call, NoCounter
<1>26. ASSUME NEW c \in Core, SendNotifs(c) PROVE CoreInv'
  BY <1>26, ConstAssumption DEF SendNotifs, CountDecrementReturns, NoCur, BackToApp, NoOp, Call,
     NoCounter
<1>27. ASSUME NEW c \in Core, NEW g \in Group, EventGroupNotif(c, g) PROVE CoreInv'
  BY <1>27, ConstAssumption DEF EventGroupNotif, AppRuns, Call, NoCounter, histVars
<1>28. ASSUME NEW c \in Core, NotifCopy(c) PROVE CoreInv'
  BY <1>28, ConstAssumption DEF NotifCopy, TableReads, BeingWritten, BackToApp, NoOp, Call,
     NoCounter, histVars
<1>29. ASSUME NEW c \in Core, NEW g \in Group, EventGroupAbort(c, g) PROVE CoreInv'
  BY <1>29, ConstAssumption DEF EventGroupAbort, AppRuns, ZeroedCounter, NoCur
<1>30. ASSUME NEW c \in Core, NEW g \in Group, EventGroupAbortLate(c, g) PROVE CoreInv'
  BY <1>30, ConstAssumption DEF EventGroupAbortLate, AppRuns, histVars
<1>31. CASE UNCHANGED vars
  BY <1>31 DEF vars, codeVars, histVars
<1> QED
  BY <1>1, <1>2, <1>3, <1>4, <1>5, <1>6, <1>7, <1>8, <1>9, <1>10, <1>11, <1>12, <1>13, <1>14,
     <1>15, <1>16, <1>17, <1>18, <1>19, <1>20, <1>21, <1>22, <1>23, <1>24, <1>25, <1>26, <1>27,
     <1>28, <1>29, <1>30, <1>31 DEF Next, CoreStep, AppCall, Dispatcher, Dispatch,
     ReceiveReturn, ApplyCas

(* Every step leaves at most one core applying or deleting a group. *)
LEMMA OwnerInvStep ==
    ASSUME TypeOK, CoreInv, OwnerInv,
           [Next]_vars
    PROVE  OwnerInv'
<1> USE DEF TypeOK, Counter, OpRec, OwnerInv, OwnerSteps, ApplySteps
<1>1. ASSUME NEW c \in Core, NEW g \in Group, EventGroupCreate(c, g) PROVE OwnerInv'
  BY <1>1, ConstAssumption DEF EventGroupCreate, AppRuns, GroupAlloc, ZeroedCounter, histVars
<1>2. ASSUME NEW c \in Core, NEW g \in Group, EventGroupDelete(c, g) PROVE OwnerInv'
  BY <1>2, ConstAssumption DEF EventGroupDelete, AppRuns, OwnerFree, Call, NoCounter, histVars
<1>3. ASSUME NEW c \in Core, EventGroupFree(c) PROVE OwnerInv'
  BY <1>3, ConstAssumption DEF EventGroupFree, GroupFree, BackToApp, NoOp, Call, NoCounter,
     histVars
<1>4. ASSUME NEW c \in Core, NEW g \in Group, NEW n \in 1..CntMax, NEW t \in NotifArgs(g), EventGroupApply(c, g, n, t)
      PROVE  OwnerInv'
  BY <1>4, ConstAssumption DEF EventGroupApply, AppRuns, OwnerFree, NoAncientTags, NotifArgs,
     Call, NoCounter, histVars
<1>5. ASSUME NEW c \in Core, ApplyBadState(c) PROVE OwnerInv'
  BY <1>5, ConstAssumption DEF ApplyBadState, BackToApp, NoOp, Call, NoCounter, histVars
<1>6. ASSUME NEW c \in Core, ApplyLoad(c) PROVE OwnerInv'
  BY <1>6, ConstAssumption DEF ApplyLoad, Loaded, Call, histVars
<1>7. ASSUME NEW c \in Core, ApplyWrite(c) PROVE OwnerInv'
  BY <1>7, ConstAssumption DEF ApplyWrite, histVars
<1>8. ASSUME NEW c \in Core, ApplyStarts(c) PROVE OwnerInv'
  BY <1>8, ConstAssumption DEF ApplyStarts, AppliedCounter, BackToApp, NoOp, Call, NoCounter
<1>9. ASSUME NEW c \in Core, ApplyRetries(c) PROVE OwnerInv'
  BY <1>9, ConstAssumption DEF ApplyRetries, histVars
<1>10. ASSUME NEW c \in Core, NEW e \in Event, NEW g \in Group \cup {UNDEF}, SendGroup(c, e, g)
      PROVE  OwnerInv'
  BY <1>10, ConstAssumption DEF SendGroup, AppRuns, EgrpTagEvent, histVars
<1>11. ASSUME NEW c \in Core, NEW B \in SUBSET Event, NEW e \in B, DispatchUntagged(c, B, e)
      PROVE  OwnerInv'
  BY <1>11, ConstAssumption DEF DispatchUntagged, Receive, SameEvgroup, NoHdr, histVars
<1>12. ASSUME NEW c \in Core, NEW B \in SUBSET Event, NEW e \in B, DispatchCounted(c, B, e)
      PROVE  OwnerInv'
  BY <1>12, ConstAssumption DEF DispatchCounted, Receive, SameEvgroup, NoHdr, histVars,
     ValidPreCnt, TakePre
<1>13. ASSUME NEW c \in Core, NEW B \in SUBSET Event, NEW e \in B, DispatchExpired(c, B, e)
      PROVE  OwnerInv'
  BY <1>13, ConstAssumption DEF DispatchExpired, Receive, SameEvgroup, NoHdr, histVars,
     ValidPreCnt, NoCur
<1>14. ASSUME NEW c \in Core, NEW n \in 1..CntMax, EventGroupIncrement(c, n) PROVE OwnerInv'
  BY <1>14, ConstAssumption DEF EventGroupIncrement, IncrementFits, AddBoth
<1>15. ASSUME NEW c \in Core, NEW g \in Group, EventGroupAssign(c, g) PROVE OwnerInv'
  BY <1>15, ConstAssumption DEF EventGroupAssign, TakePre, histVars
<1>16. ASSUME NEW c \in Core, EventGroupProcessingEnd(c) PROVE OwnerInv'
  BY <1>16, ConstAssumption DEF EventGroupProcessingEnd, Call, NoCounter, histVars
<1>17. ASSUME NEW c \in Core, ReturnUncounted(c) PROVE OwnerInv'
  BY <1>17, ConstAssumption DEF ReturnUncounted, histVars
<1>18. ASSUME NEW c \in Core, ReturnCounted(c) PROVE OwnerInv'
  BY <1>18, ConstAssumption DEF ReturnCounted, Call, NoCounter, histVars
<1>19. ASSUME NEW c \in Core, PostExpired(c) PROVE OwnerInv'
  BY <1>19, ConstAssumption DEF PostExpired, ValidPostCnt, CountDecrementReturns, NoCur,
     BackToApp, NoOp, Call, NoCounter, HandledBy, Handles, CoreInv, PostSteps
<1>20. ASSUME NEW c \in Core, PostLoad(c) PROVE OwnerInv'
  BY <1>20, ConstAssumption DEF PostLoad, ValidPostCnt, Loaded, Call, histVars, CoreInv,
     PostSteps
<1>21. ASSUME NEW c \in Core, PostCopy(c) PROVE OwnerInv'
  BY <1>21, ConstAssumption DEF PostCopy, TableReads, BeingWritten, Copied, Call, histVars,
     CoreInv, PostSteps
<1>22. ASSUME NEW c \in Core, PostRetry(c) PROVE OwnerInv'
  BY <1>22, ConstAssumption DEF PostRetry, SameWord, Copied, Call, histVars, CoreInv, PostSteps
<1>23. ASSUME NEW c \in Core, PostCas(c) PROVE OwnerInv'
  BY <1>23, ConstAssumption DEF PostCas, PostSwap, SameWord, DecrementedCounter, HandledBy,
     Handles, CountDecrementReturns, NoCur, BackToApp, NoOp, Call, NoCounter, CoreInv, PostSteps
<1>24. ASSUME NEW c \in Core, PostCasLast(c) PROVE OwnerInv'
  BY <1>24, ConstAssumption DEF PostCasLast, PostSwap, SameWord, DecrementedCounter, HandledBy,
     Handles, CoreInv, PostSteps
<1>25. ASSUME NEW c \in Core, PostCasSilent(c) PROVE OwnerInv'
  BY <1>25, ConstAssumption DEF PostCasSilent, PostSwap, SameWord, DecrementedCounter, HandledBy,
     Handles, CountDecrementReturns, NoCur, BackToApp, NoOp, Call, NoCounter, CoreInv, PostSteps
<1>26. ASSUME NEW c \in Core, SendNotifs(c) PROVE OwnerInv'
  BY <1>26, ConstAssumption DEF SendNotifs, CountDecrementReturns, NoCur, BackToApp, NoOp, Call,
     NoCounter, CoreInv, PostSteps
<1>27. ASSUME NEW c \in Core, NEW g \in Group, EventGroupNotif(c, g) PROVE OwnerInv'
  BY <1>27, ConstAssumption DEF EventGroupNotif, AppRuns, Call, NoCounter, histVars
<1>28. ASSUME NEW c \in Core, NotifCopy(c) PROVE OwnerInv'
  BY <1>28, ConstAssumption DEF NotifCopy, TableReads, BeingWritten, BackToApp, NoOp, Call,
     NoCounter, histVars
<1>29. ASSUME NEW c \in Core, NEW g \in Group, EventGroupAbort(c, g) PROVE OwnerInv'
  BY <1>29, ConstAssumption DEF EventGroupAbort, AppRuns, ZeroedCounter, NoCur
<1>30. ASSUME NEW c \in Core, NEW g \in Group, EventGroupAbortLate(c, g) PROVE OwnerInv'
  BY <1>30, ConstAssumption DEF EventGroupAbortLate, AppRuns, histVars
<1>31. CASE UNCHANGED vars
  BY <1>31 DEF vars, codeVars, histVars
<1> QED
  BY <1>1, <1>2, <1>3, <1>4, <1>5, <1>6, <1>7, <1>8, <1>9, <1>10, <1>11, <1>12, <1>13, <1>14,
     <1>15, <1>16, <1>17, <1>18, <1>19, <1>20, <1>21, <1>22, <1>23, <1>24, <1>25, <1>26, <1>27,
     <1>28, <1>29, <1>30, <1>31 DEF Next, CoreStep, AppCall, Dispatcher, Dispatch,
     ReceiveReturn, ApplyCas

(* Every step keeps the tags inside the generation window. *)
LEMMA GenInvStep ==
    ASSUME TypeOK, CoreInv, OwnerInv, GenInv,
           [Next]_vars
    PROVE  GenInv'
<1> USE DEF TypeOK, Counter, OpRec, GenInv, InWindow, NoAncientTags, ApplySteps
<1>1. ASSUME NEW c \in Core, NEW g \in Group, EventGroupCreate(c, g) PROVE GenInv'
  BY <1>1, ConstAssumption DEF EventGroupCreate, AppRuns, GroupAlloc, ZeroedCounter, histVars,
     OwnerInv, OwnerSteps
<1>2. ASSUME NEW c \in Core, NEW g \in Group, EventGroupDelete(c, g) PROVE GenInv'
  BY <1>2, ConstAssumption DEF EventGroupDelete, AppRuns, OwnerFree, OwnerSteps, Call, NoCounter,
     histVars, OwnerInv
<1>3. ASSUME NEW c \in Core, EventGroupFree(c) PROVE GenInv'
  BY <1>3, ConstAssumption DEF EventGroupFree, GroupFree, BackToApp, NoOp, Call, NoCounter,
     histVars, OwnerInv, OwnerSteps
<1>4. ASSUME NEW c \in Core, NEW g \in Group, NEW n \in 1..CntMax, NEW t \in NotifArgs(g), EventGroupApply(c, g, n, t)
      PROVE  GenInv'
  BY <1>4, ConstAssumption DEF EventGroupApply, AppRuns, OwnerFree, OwnerSteps, NotifArgs, Call,
     NoCounter, histVars, OwnerInv
<1>5. ASSUME NEW c \in Core, ApplyBadState(c) PROVE GenInv'
  BY <1>5, ConstAssumption DEF ApplyBadState, BackToApp, NoOp, Call, NoCounter, histVars,
     OwnerInv, OwnerSteps
<1>6. ASSUME NEW c \in Core, ApplyLoad(c) PROVE GenInv'
  BY <1>6, ConstAssumption DEF ApplyLoad, Loaded, Call, histVars, OwnerInv, OwnerSteps
<1>7. ASSUME NEW c \in Core, ApplyWrite(c) PROVE GenInv'
  BY <1>7, ConstAssumption DEF ApplyWrite, histVars, OwnerInv, OwnerSteps
<1>8. ASSUME NEW c \in Core, ApplyStarts(c) PROVE GenInv'
  <2> DEFINE g == op[c].g
  <2>1. /\ g \in Group /\ pc[c] = "apply_cas"
        /\ counts' = [counts EXCEPT ![g] = AppliedCounter(counts[g], op[c].num)]
        /\ cyc' = [cyc EXCEPT ![g] = @ + 1]
        /\ ev' = ev /\ cur' = cur
        /\ pc' = [pc EXCEPT ![c] = BackToApp(c)] /\ op' = [op EXCEPT ![c] = NoOp]
    BY <1>8 DEF ApplyStarts, OwnerInv, OwnerSteps
  <2>2. NoAncientTags(g) BY <2>1
  <2>3. counts'[g].gen = cyc'[g] % GenMod
    <3>1. counts'[g].gen = ((cyc[g] % GenMod) + 1) % GenMod BY <2>1 DEF AppliedCounter
    <3>2. cyc[g] \in Nat /\ cyc'[g] = cyc[g] + 1 BY <2>1
    <3> QED BY <3>1, <3>2, GenSucc
  <2>4. ASSUME NEW h \in Group PROVE counts'[h].gen = cyc'[h] % GenMod
    <3>1. CASE h = g BY <3>1, <2>3
    <3>2. CASE h # g BY <3>2, <2>1
    <3> QED BY <3>1, <3>2
  <2>5. ASSUME NEW h \in Group, NEW e \in Event, ev[e].queued, ev[e].egrp = h PROVE InWindow(ev[e], h)'
    BY <2>5, <2>1, <2>2, ConstAssumption
  <2>6. ASSUME NEW h \in Group, NEW d \in Core, cur[d].egrp = h PROVE InWindow(cur[d], h)'
    BY <2>6, <2>1, <2>2, ConstAssumption
  <2>7. ASSUME NEW h \in Group, NEW d \in Core, pc'[d] \in ApplySteps, op'[d].g = h PROVE NoAncientTags(h)'
    <3>1. d # c BY <2>7, <2>1 DEF BackToApp
    <3>2. h # g BY <3>1, <2>7, <2>1 DEF OwnerInv, OwnerSteps
    <3>3. NoAncientTags(h) BY <3>1, <2>7, <2>1
    <3> QED BY <3>2, <3>3, <2>1
  <2> QED BY <2>1, <2>4, <2>5, <2>6, <2>7
<1>9. ASSUME NEW c \in Core, ApplyRetries(c) PROVE GenInv'
  BY <1>9, ConstAssumption DEF ApplyRetries, histVars, OwnerInv, OwnerSteps
<1>10. ASSUME NEW c \in Core, NEW e \in Event, NEW g \in Group \cup {UNDEF}, SendGroup(c, e, g)
      PROVE  GenInv'
  BY <1>10, ConstAssumption DEF SendGroup, AppRuns, EgrpTagEvent, histVars, OwnerInv, OwnerSteps
<1>11. ASSUME NEW c \in Core, NEW B \in SUBSET Event, NEW e \in B, DispatchUntagged(c, B, e)
      PROVE  GenInv'
  BY <1>11, ConstAssumption DEF DispatchUntagged, Receive, SameEvgroup, NoHdr, histVars,
     OwnerInv, OwnerSteps
<1>12. ASSUME NEW c \in Core, NEW B \in SUBSET Event, NEW e \in B, DispatchCounted(c, B, e)
      PROVE  GenInv'
  BY <1>12, ConstAssumption DEF DispatchCounted, Receive, SameEvgroup, NoHdr, histVars,
     ValidPreCnt, TakePre, OwnerInv, OwnerSteps
<1>13. ASSUME NEW c \in Core, NEW B \in SUBSET Event, NEW e \in B, DispatchExpired(c, B, e)
      PROVE  GenInv'
  BY <1>13, ConstAssumption DEF DispatchExpired, Receive, SameEvgroup, NoHdr, histVars,
     ValidPreCnt, NoCur, OwnerInv, OwnerSteps
<1>14. ASSUME NEW c \in Core, NEW n \in 1..CntMax, EventGroupIncrement(c, n) PROVE GenInv'
  BY <1>14, ConstAssumption DEF EventGroupIncrement, IncrementFits, AddBoth, OwnerInv, OwnerSteps
<1>15. ASSUME NEW c \in Core, NEW g \in Group, EventGroupAssign(c, g) PROVE GenInv'
  BY <1>15, ConstAssumption DEF EventGroupAssign, TakePre, histVars, OwnerInv, OwnerSteps
<1>16. ASSUME NEW c \in Core, EventGroupProcessingEnd(c) PROVE GenInv'
  BY <1>16, ConstAssumption DEF EventGroupProcessingEnd, Call, NoCounter, histVars, OwnerInv,
     OwnerSteps, CoreInv, PostSteps
<1>17. ASSUME NEW c \in Core, ReturnUncounted(c) PROVE GenInv'
  BY <1>17, ConstAssumption DEF ReturnUncounted, histVars, OwnerInv, OwnerSteps
<1>18. ASSUME NEW c \in Core, ReturnCounted(c) PROVE GenInv'
  BY <1>18, ConstAssumption DEF ReturnCounted, Call, NoCounter, histVars, OwnerInv, OwnerSteps,
     CoreInv, PostSteps
<1>19. ASSUME NEW c \in Core, PostExpired(c) PROVE GenInv'
  BY <1>19, ConstAssumption DEF PostExpired, ValidPostCnt, CountDecrementReturns, NoCur,
     BackToApp, NoOp, Call, NoCounter, HandledBy, Handles, OwnerInv, OwnerSteps, CoreInv, PostSteps
<1>20. ASSUME NEW c \in Core, PostLoad(c) PROVE GenInv'
  BY <1>20, ConstAssumption DEF PostLoad, ValidPostCnt, Loaded, Call, histVars, OwnerInv,
     OwnerSteps, CoreInv, PostSteps
<1>21. ASSUME NEW c \in Core, PostCopy(c) PROVE GenInv'
  BY <1>21, ConstAssumption DEF PostCopy, TableReads, BeingWritten, Copied, Call, histVars,
     OwnerInv, OwnerSteps, CoreInv, PostSteps
<1>22. ASSUME NEW c \in Core, PostRetry(c) PROVE GenInv'
  BY <1>22, ConstAssumption DEF PostRetry, SameWord, Copied, Call, histVars, OwnerInv,
     OwnerSteps, CoreInv, PostSteps
<1>23. ASSUME NEW c \in Core, PostCas(c) PROVE GenInv'
  BY <1>23, ConstAssumption DEF PostCas, PostSwap, SameWord, DecrementedCounter, HandledBy,
     Handles, CountDecrementReturns, NoCur, BackToApp, NoOp, Call, NoCounter, OwnerInv, OwnerSteps,
     CoreInv, PostSteps
<1>24. ASSUME NEW c \in Core, PostCasLast(c) PROVE GenInv'
  BY <1>24, ConstAssumption DEF PostCasLast, PostSwap, SameWord, DecrementedCounter, HandledBy,
     Handles, OwnerInv, OwnerSteps, CoreInv, PostSteps
<1>25. ASSUME NEW c \in Core, PostCasSilent(c) PROVE GenInv'
  BY <1>25, ConstAssumption DEF PostCasSilent, PostSwap, SameWord, DecrementedCounter, HandledBy,
     Handles, CountDecrementReturns, NoCur, BackToApp, NoOp, Call, NoCounter, OwnerInv, OwnerSteps,
     CoreInv, PostSteps
<1>26. ASSUME NEW c \in Core, SendNotifs(c) PROVE GenInv'
  BY <1>26, ConstAssumption DEF SendNotifs, CountDecrementReturns, NoCur, BackToApp, NoOp, Call,
     NoCounter, OwnerInv, OwnerSteps, CoreInv, PostSteps
<1>27. ASSUME NEW c \in Core, NEW g \in Group, EventGroupNotif(c, g) PROVE GenInv'
  BY <1>27, ConstAssumption DEF EventGroupNotif, AppRuns, Call, NoCounter, histVars, OwnerInv,
     OwnerSteps
<1>28. ASSUME NEW c \in Core, NotifCopy(c) PROVE GenInv'
  BY <1>28, ConstAssumption DEF NotifCopy, TableReads, BeingWritten, BackToApp, NoOp, Call,
     NoCounter, histVars, OwnerInv, OwnerSteps
<1>29. ASSUME NEW c \in Core, NEW g \in Group, EventGroupAbort(c, g) PROVE GenInv'
  BY <1>29, ConstAssumption DEF EventGroupAbort, AppRuns, ZeroedCounter, NoCur, OwnerInv,
     OwnerSteps
<1>30. ASSUME NEW c \in Core, NEW g \in Group, EventGroupAbortLate(c, g) PROVE GenInv'
  BY <1>30, ConstAssumption DEF EventGroupAbortLate, AppRuns, histVars, OwnerInv, OwnerSteps
<1>31. CASE UNCHANGED vars
  BY <1>31 DEF vars, codeVars, histVars
<1> QED
  BY <1>1, <1>2, <1>3, <1>4, <1>5, <1>6, <1>7, <1>8, <1>9, <1>10, <1>11, <1>12, <1>13, <1>14,
     <1>15, <1>16, <1>17, <1>18, <1>19, <1>20, <1>21, <1>22, <1>23, <1>24, <1>25, <1>26, <1>27,
     <1>28, <1>29, <1>30, <1>31 DEF Next, CoreStep, AppCall, Dispatcher, Dispatch,
     ReceiveReturn, ApplyCas

(* A core that finds its cycle expired in post_count_decrement() held no    *)
(* event of a running cycle.                                                *)
LEMMA ExpiredHoldsNothing ==
    ASSUME TypeOK, CoreInv, GenInv, CountersMatchHolders, NEW c \in Core, PostExpired(c),
           counts[op[c].g].applied
    PROVE  c \notin Holders(op[c].g)
<1> DEFINE g == op[c].g
<1>1. g \in Group /\ cur[c].egrp = g /\ op[c].num = rcv_multi_cnt[c]
  BY DEF PostExpired, CoreInv, PostSteps
<1> SUFFICES ASSUME c \in Holders(g) PROVE FALSE OBVIOUS
<1>2. cur[c].cyc = cyc[g] BY DEF Holders, Holds
<1>3. counts[g].gen = cur[c].gen BY <1>1, <1>2 DEF GenInv, InWindow
<1>4. ~(counts[g].post >= op[c].num) BY <1>3 DEF PostExpired, ValidPostCnt
<1>5. Holders(g) \in SUBSET Core BY DEF Holders
<1>6. rcv_multi_cnt \in [Core -> 0..MaxBatch] BY DEF TypeOK
<1> DEFINE rest == Slots(Holders(g) \ {c}, rcv_multi_cnt)
<1>7. Cardinality(Held(g)) = Cardinality(rest) + rcv_multi_cnt[c]
  BY <1>5, <1>6, SlotsRemove DEF Held
<1>8. Cardinality(rest) \in Nat BY <1>5, <1>6, SlotsFinite
<1>9. counts[g].post = counts[g].pre + Cardinality(Held(g)) BY <1>1 DEF CountersMatchHolders
<1>10. counts[g].pre \in Nat /\ counts[g].post \in Nat /\ rcv_multi_cnt[c] \in Nat
  BY <1>1, ConstAssumption DEF TypeOK, Counter
<1> HIDE DEF rest
<1> QED BY <1>1, <1>4, <1>7, <1>8, <1>9, <1>10

(* A successful compare-and-swap of post_count_decrement() is one of the    *)
(* running cycle: the whole word, so also the generation, was compared.     *)
LEMMA SwapIsOfTheCycle ==
    ASSUME TypeOK, CoreInv, GenInv, CountersMatchHolders, NEW c \in Core, PostSwap(c)
    PROVE  /\ op[c].g \in Group /\ cur[c].egrp = op[c].g
           /\ counts[op[c].g] = op[c].old /\ counts[op[c].g].applied
           /\ cur[c].cyc = cyc[op[c].g] /\ c \in Holders(op[c].g)
           /\ op[c].num = rcv_multi_cnt[c] /\ op[c].num \in Nat \ {0}
           /\ op[c].old.post >= op[c].num
<1> DEFINE g == op[c].g
<1>1. /\ g \in Group /\ cur[c].egrp = g /\ op[c].num = rcv_multi_cnt[c] /\ rcv_multi_cnt[c] > 0
      /\ op[c].old.gen = cur[c].gen /\ op[c].old.post >= op[c].num /\ pc[c] = "post_cas"
  BY DEF PostSwap, CoreInv, PostSteps
<1>2. counts[g] = op[c].old BY DEF PostSwap, SameWord
<1>3. op[c].num \in Nat \ {0} /\ counts[g].post \in Nat BY <1>1, ConstAssumption DEF TypeOK, Counter
<1>4. counts[g].applied BY <1>1, <1>2, <1>3 DEF CountersMatchHolders
<1>5. cur[c].cyc = cyc[g]
  <2>1. InWindow(cur[c], g) /\ counts[g].gen = cyc[g] % GenMod BY <1>1 DEF GenInv
  <2>2. cur[c].cyc \in Nat /\ cyc[g] \in Nat BY <1>1 DEF TypeOK
  <2>3. cur[c].cyc <= cyc[g] /\ cyc[g] < cur[c].cyc + GenMod /\ cur[c].cyc % GenMod = cyc[g] % GenMod
    BY <2>1, <1>1, <1>2 DEF InWindow
  <2> QED BY <2>2, <2>3, GenSeparates
<1>6. c \in Holders(g) BY <1>1, <1>5 DEF Holders, Holds
<1> QED BY <1>1, <1>2, <1>3, <1>4, <1>5, <1>6

(* It takes from the post-count exactly what its core stops to hold. *)
LEMMA SwapCounts ==
    ASSUME TypeOK, CoreInv, GenInv, CountersMatchHolders, NEW c \in Core, PostSwap(c),
           cyc' = cyc, rcv_multi_cnt' = rcv_multi_cnt,
           counts' = [counts EXCEPT ![op[c].g] = DecrementedCounter(op[c].old, op[c].num)],
           pc'[c] = "send" \/ cur'[c].egrp = UNDEF,
           \A d \in Core \ {c} : pc'[d] = pc[d] /\ cur'[d] = cur[d],
           cur'[c].egrp \in {op[c].g, UNDEF}
    PROVE  CountersMatchHolders'
<1>0. PICK g \in Group : g = op[c].g BY SwapIsOfTheCycle
<1> DEFINE n == op[c].num
           rest == Slots(Holders(g) \ {c}, rcv_multi_cnt)
<1>1. /\ g \in Group /\ cur[c].egrp = g /\ counts[g] = op[c].old /\ counts[g].applied
      /\ c \in Holders(g) /\ n = rcv_multi_cnt[c] /\ n \in Nat \ {0} /\ counts[g].post >= n
  BY <1>0, SwapIsOfTheCycle
<1>2. ASSUME NEW h \in Group, h # g PROVE Held(h)' = Held(h) /\ counts'[h] = counts[h]
  <2>1. ASSUME NEW d \in Core PROVE Holds(d, h)' <=> Holds(d, h)
    BY <1>0, <1>1, <1>2, ConstAssumption DEF Holds
  <2>2. Holders(h)' = Holders(h) BY <2>1 DEF Holders
  <2> QED BY <2>2, <1>0, <1>2 DEF Held, TypeOK
<1>3. Held(g)' = rest
  <2>1. ASSUME NEW d \in Core PROVE Holds(d, g)' <=> Holds(d, g) /\ d # c
    BY <1>0, <1>1, ConstAssumption DEF Holds
  <2>2. Holders(g)' = Holders(g) \ {c} BY <2>1 DEF Holders
  <2> QED BY <2>2 DEF Held
<1>4. Holders(g) \in SUBSET Core /\ rcv_multi_cnt \in [Core -> 0..MaxBatch] BY DEF Holders, TypeOK
<1>5. Cardinality(Held(g)) = Cardinality(rest) + n BY <1>1, <1>4, SlotsRemove DEF Held
<1>6. Cardinality(rest) \in Nat BY <1>4, SlotsFinite
<1>7. counts[g].post = counts[g].pre + Cardinality(Held(g)) BY <1>1 DEF CountersMatchHolders
<1>8. counts[g].pre \in Nat /\ counts[g].post \in Nat BY <1>1 DEF TypeOK, Counter
<1>9. counts'[g].pre = counts[g].pre /\ counts'[g].post = counts[g].post - n
  BY <1>0, <1>1 DEF DecrementedCounter, TypeOK
<1>9a. counts'[g].applied <=> counts[g].post # n BY <1>0, <1>1 DEF DecrementedCounter, TypeOK
<1> HIDE DEF n, rest
<1>10. /\ counts'[g].post = counts'[g].pre + Cardinality(rest)
       /\ counts'[g].pre \in Nat /\ counts'[g].post \in Nat
  BY <1>1, <1>5, <1>6, <1>7, <1>8, <1>9
<1>11. counts'[g].applied => counts'[g].post > 0 /\ counts'[g].post = counts'[g].pre + Cardinality(Held(g)')
  <2>1. counts[g].post # n => counts'[g].post > 0 BY <1>1, <1>8, <1>9
  <2> QED BY <2>1, <1>3, <1>10, <1>9a
<1>12. ~counts'[g].applied => counts'[g].pre = 0 /\ counts'[g].post = 0
  <2>1. counts[g].post = n => counts'[g].post = 0 BY <1>1, <1>8, <1>9
  <2>2. counts'[g].post = 0 => counts'[g].pre = 0 BY <1>6, <1>10
  <2> QED BY <2>1, <2>2, <1>9a
<1> QED BY <1>2, <1>11, <1>12 DEF CountersMatchHolders

(* Every step keeps the two counters apart by what the cores hold. *)
LEMMA CountersStep ==
    ASSUME TypeOK, CoreInv, OwnerInv, GenInv, CountersMatchHolders,
           [Next]_vars
    PROVE  CountersMatchHolders'
<1> USE DEF TypeOK, Counter, OpRec, CountersMatchHolders
<1>1. ASSUME NEW c \in Core, NEW g \in Group, EventGroupCreate(c, g) PROVE CountersMatchHolders'
  <2>1. \A h \in Group : Held(h)' = Held(h) BY <1>1 DEF EventGroupCreate, AppRuns, GroupAlloc,
      ZeroedCounter, histVars, NoNotif, Held, Holders, Holds
  <2> QED BY <1>1, <2>1, ConstAssumption DEF EventGroupCreate, AppRuns, GroupAlloc,
      ZeroedCounter, histVars, NoNotif
<1>2. ASSUME NEW c \in Core, NEW g \in Group, EventGroupDelete(c, g) PROVE CountersMatchHolders'
  <2>1. \A h \in Group : Held(h)' = Held(h) BY <1>2 DEF EventGroupDelete, AppRuns, OwnerFree,
      OwnerSteps, Call, NoCounter, histVars, NoNotif, Held, Holders, Holds
  <2> QED BY <1>2, <2>1, ConstAssumption DEF EventGroupDelete, AppRuns, OwnerFree, OwnerSteps,
      Call, NoCounter, histVars, NoNotif
<1>3. ASSUME NEW c \in Core, EventGroupFree(c) PROVE CountersMatchHolders'
  <2>1. \A h \in Group : Held(h)' = Held(h) BY <1>3 DEF EventGroupFree, GroupFree, BackToApp,
      NoOp, Call, NoCounter, histVars, OwnerInv, OwnerSteps, ApplySteps, NoNotif, Held, Holders,
      Holds
  <2> QED BY <1>3, <2>1, ConstAssumption DEF EventGroupFree, GroupFree, BackToApp, NoOp, Call,
      NoCounter, histVars, OwnerInv, OwnerSteps, ApplySteps, NoNotif
<1>4. ASSUME NEW c \in Core, NEW g \in Group, NEW n \in 1..CntMax, NEW t \in NotifArgs(g), EventGroupApply(c, g, n, t)
      PROVE  CountersMatchHolders'
  <2>1. \A h \in Group : Held(h)' = Held(h) BY <1>4 DEF EventGroupApply, AppRuns, OwnerFree,
      OwnerSteps, NoAncientTags, NotifArgs, Call, NoCounter, histVars, NoNotif, Held, Holders, Holds
  <2> QED BY <1>4, <2>1, ConstAssumption DEF EventGroupApply, AppRuns, OwnerFree, OwnerSteps,
      NoAncientTags, NotifArgs, Call, NoCounter, histVars, NoNotif
<1>5. ASSUME NEW c \in Core, ApplyBadState(c) PROVE CountersMatchHolders'
  <2>1. \A h \in Group : Held(h)' = Held(h) BY <1>5 DEF ApplyBadState, BackToApp, NoOp, Call,
      NoCounter, histVars, OwnerInv, OwnerSteps, ApplySteps, NoNotif, Held, Holders, Holds
  <2> QED BY <1>5, <2>1, ConstAssumption DEF ApplyBadState, BackToApp, NoOp, Call, NoCounter,
      histVars, OwnerInv, OwnerSteps, ApplySteps, NoNotif
<1>6. ASSUME NEW c \in Core, ApplyLoad(c) PROVE CountersMatchHolders'
  <2>1. \A h \in Group : Held(h)' = Held(h) BY <1>6 DEF ApplyLoad, Loaded, Call, histVars,
      OwnerInv, OwnerSteps, ApplySteps, NoNotif, Held, Holders, Holds
  <2> QED BY <1>6, <2>1, ConstAssumption DEF ApplyLoad, Loaded, Call, histVars, OwnerInv,
      OwnerSteps, ApplySteps, NoNotif
<1>7. ASSUME NEW c \in Core, ApplyWrite(c) PROVE CountersMatchHolders'
  <2>1. \A h \in Group : Held(h)' = Held(h) BY <1>7 DEF ApplyWrite, histVars, OwnerInv,
      OwnerSteps, ApplySteps, NoNotif, Held, Holders, Holds
  <2> QED BY <1>7, <2>1, ConstAssumption DEF ApplyWrite, histVars, OwnerInv, OwnerSteps,
      ApplySteps, NoNotif
<1>8. ASSUME NEW c \in Core, ApplyStarts(c) PROVE CountersMatchHolders'
  <2>0. PICK g \in Group : g = op[c].g BY <1>8 DEF ApplyStarts, OwnerInv, OwnerSteps
  <2>1. /\ g \in Group /\ op[c].num \in 1..CntMax /\ pc[c] = "apply_cas"
        /\ counts' = [counts EXCEPT ![g] = AppliedCounter(op[c].old, op[c].num)]
        /\ cyc' = [cyc EXCEPT ![g] = @ + 1] /\ pc' = [pc EXCEPT ![c] = BackToApp(c)]
        /\ cur' = cur /\ rcv_multi_cnt' = rcv_multi_cnt
    BY <1>8, <2>0 DEF ApplyStarts, OwnerInv, OwnerSteps, ApplySteps
  <2>2. ASSUME NEW h \in Group, h # g PROVE Held(h)' = Held(h) /\ counts'[h] = counts[h]
    <3>1. ASSUME NEW d \in Core PROVE Holds(d, h)' <=> Holds(d, h) BY <2>1, <2>2 DEF Holds,
        BackToApp
    <3>2. Holders(h)' = Holders(h) BY <3>1 DEF Holders
    <3> QED BY <3>2, <2>1, <2>2 DEF Held
  <2>3. Cardinality(Held(g)') = 0
    <3>1. ASSUME NEW d \in Core PROVE ~Holds(d, g)'
      <4>1. CASE cur[d].egrp # g BY <4>1, <2>1 DEF Holds
      <4>2. CASE cur[d].egrp = g
        <5>1. cur[d].cyc <= cyc[g] BY <4>2, <2>1 DEF GenInv, InWindow
        <5>2. cur[d].cyc \in Nat /\ cyc[g] \in Nat /\ cyc'[g] = cyc[g] + 1 BY <2>1
        <5> QED BY <5>1, <5>2, <2>1 DEF Holds
      <4> QED BY <4>1, <4>2
    <3>2. Holders(g)' = {} BY <3>1 DEF Holders
    <3> QED BY <3>2, <2>1, SlotsNone DEF Held
  <2>4. counts'[g].applied /\ counts'[g].post > 0 /\ counts'[g].post = counts'[g].pre /\ counts'[g].pre \in Nat
    BY <2>1, ConstAssumption DEF AppliedCounter
  <2>5. counts'[g].post = counts'[g].pre + Cardinality(Held(g)') BY <2>3, <2>4
  <2> QED BY <2>2, <2>4, <2>5
<1>9. ASSUME NEW c \in Core, ApplyRetries(c) PROVE CountersMatchHolders'
  <2>1. \A h \in Group : Held(h)' = Held(h) BY <1>9 DEF ApplyRetries, histVars, OwnerInv,
      OwnerSteps, ApplySteps, NoNotif, Held, Holders, Holds
  <2> QED BY <1>9, <2>1, ConstAssumption DEF ApplyRetries, histVars, OwnerInv, OwnerSteps,
      ApplySteps, NoNotif
<1>10. ASSUME NEW c \in Core, NEW e \in Event, NEW g \in Group \cup {UNDEF}, SendGroup(c, e, g)
      PROVE  CountersMatchHolders'
  <2>1. \A h \in Group : Held(h)' = Held(h) BY <1>10 DEF SendGroup, AppRuns, EgrpTagEvent,
      histVars, NoNotif, Held, Holders, Holds
  <2> QED BY <1>10, <2>1, ConstAssumption DEF SendGroup, AppRuns, EgrpTagEvent, histVars, NoNotif
<1>11. ASSUME NEW c \in Core, NEW B \in SUBSET Event, NEW e \in B, DispatchUntagged(c, B, e)
      PROVE  CountersMatchHolders'
  <2>1. Cardinality(B) \in 1..MaxBatch BY <1>11, BatchSize DEF DispatchUntagged
  <2>2. /\ counts' = counts /\ cyc' = cyc /\ cur[c].egrp = UNDEF /\ cur'[c].egrp = UNDEF
        /\ \A d \in Core \ {c} : cur'[d] = cur[d] /\ pc'[d] = pc[d] /\ rcv_multi_cnt'[d] = rcv_multi_cnt[d]
    BY <1>11 DEF DispatchUntagged, Receive, CoreInv, PostSteps, NoCur, histVars
  <2>3. rcv_multi_cnt' \in [Core -> 0..MaxBatch] BY <1>11, <2>1, ConstAssumption DEF
      DispatchUntagged, Receive
  <2>4. ASSUME NEW h \in Group PROVE Held(h)' = Held(h)
    <3>0. ASSUME NEW d \in Core PROVE Holds(d, h)' <=> Holds(d, h)
      <4>1. CASE d = c BY <4>1, <2>2, ConstAssumption DEF Holds
      <4>2. CASE d # c BY <4>2, <2>2 DEF Holds
      <4> QED BY <4>1, <4>2
    <3>1. Holders(h)' = Holders(h) BY <3>0 DEF Holders
    <3>2. c \notin Holders(h) /\ Holders(h) \subseteq Core BY <2>2, ConstAssumption DEF Holders,
        Holds
    <3>3. Slots(Holders(h), rcv_multi_cnt) = Slots(Holders(h), rcv_multi_cnt')
      BY <2>2, <2>3, <3>2, SlotsSame
    <3> QED BY <3>1, <3>3 DEF Held
  <2> QED BY <2>2, <2>4
<1>12. ASSUME NEW c \in Core, NEW B \in SUBSET Event, NEW e \in B, DispatchCounted(c, B, e)
      PROVE  CountersMatchHolders'
  <2>0. PICK g \in Group : g = ev[e].egrp BY <1>12 DEF DispatchCounted
  <2> DEFINE n == Cardinality(B)
  <2>1. n \in 1..MaxBatch BY <1>12, BatchSize DEF DispatchCounted
  <2>2. /\ g \in Group /\ ev[e].queued /\ cyc' = cyc /\ pc[c] = "idle"
        /\ pc' = [pc EXCEPT ![c] = "rcv"]
        /\ counts[g].applied /\ counts[g].pre >= n /\ counts[g].gen = ev[e].gen
        /\ counts' = [counts EXCEPT ![g] = TakePre(@, n)]
        /\ cur' = [cur EXCEPT ![c] = [egrp |-> g, gen |-> ev[e].gen, cyc |-> ev[e].cyc]]
        /\ rcv_multi_cnt' = [rcv_multi_cnt EXCEPT ![c] = n]
    BY <1>12, <2>0 DEF DispatchCounted, Receive, ValidPreCnt, histVars
  <2>3. ev[e].cyc = cyc[g]
    <3>1. ev[e].cyc \in Nat /\ cyc[g] \in Nat BY <2>2
    <3>2. InWindow(ev[e], g) /\ counts[g].gen = cyc[g] % GenMod BY <2>0, <2>2 DEF GenInv
    <3> QED BY <3>1, <3>2, <2>2, GenSeparates DEF InWindow
  <2>4. cur[c].egrp = UNDEF BY <2>2 DEF CoreInv, PostSteps
  <2>5. rcv_multi_cnt' \in [Core -> 0..MaxBatch] /\ rcv_multi_cnt'[c] = n
    BY <2>1, <2>2, ConstAssumption
  <2> HIDE DEF n
  <2>6. ASSUME NEW h \in Group PROVE Slots(Holders(h), rcv_multi_cnt') = Held(h)
    <3>1. c \notin Holders(h) /\ Holders(h) \subseteq Core BY <2>4, ConstAssumption DEF Holders,
        Holds
    <3>2. \A d \in Holders(h) : rcv_multi_cnt'[d] = rcv_multi_cnt[d] BY <3>1, <2>2
    <3> QED BY <3>1, <3>2, <2>5, SlotsSame DEF Held
  <2>7. ASSUME NEW h \in Group, h # g PROVE Held(h)' = Held(h)
    <3>0. ASSUME NEW d \in Core PROVE Holds(d, h)' <=> Holds(d, h)
      BY <2>2, <2>4, <2>7, ConstAssumption DEF Holds
    <3>1. Holders(h)' = Holders(h) BY <3>0 DEF Holders
    <3> QED BY <3>1, <2>6 DEF Held
  <2>8. Cardinality(Held(g)') = Cardinality(Held(g)) + n
    <3>0. ASSUME NEW d \in Core PROVE Holds(d, g)' <=> Holds(d, g) \/ d = c
      BY <2>2, <2>3 DEF Holds
    <3>1. Holders(g)' = Holders(g) \cup {c} BY <3>0 DEF Holders
    <3>2. c \notin Holders(g) /\ Holders(g) \in SUBSET Core BY <2>2, <2>4, ConstAssumption DEF
        Holders, Holds
    <3>3. Cardinality(Slots(Holders(g) \cup {c}, rcv_multi_cnt')) = Cardinality(Slots(Holders(g), rcv_multi_cnt')) + rcv_multi_cnt'[c]
      BY <3>2, <2>5, SlotsAdd
    <3> QED BY <3>1, <3>3, <2>2, <2>5, <2>6 DEF Held
  <2>9. Cardinality(Held(g)) \in Nat BY HeldFinite, <2>2
  <2>10. /\ counts'[g].applied /\ counts'[g].pre = counts[g].pre - n /\ counts'[g].post = counts[g].post
         /\ \A h \in Group \ {g} : counts'[h] = counts[h]
    BY <2>2 DEF TakePre
  <2>11. counts[g].post > 0 /\ counts[g].post = counts[g].pre + Cardinality(Held(g)) BY <2>2
  <2>12. counts[g].pre \in Nat /\ counts[g].post \in Nat /\ n \in Nat BY <2>1, <2>2
  <2>13. counts'[g].post > 0 /\ counts'[g].post = counts'[g].pre + Cardinality(Held(g)')
    BY <2>8, <2>9, <2>10, <2>11, <2>12
  <2>14. ASSUME NEW h \in Group, h # g PROVE counts'[h] = counts[h] /\ Held(h)' = Held(h)
    BY <2>7, <2>10, <2>14
  <2> QED BY <2>10, <2>13, <2>14
<1>13. ASSUME NEW c \in Core, NEW B \in SUBSET Event, NEW e \in B, DispatchExpired(c, B, e)
      PROVE  CountersMatchHolders'
  <2>1. Cardinality(B) \in 1..MaxBatch BY <1>13, BatchSize DEF DispatchExpired
  <2>2. /\ counts' = counts /\ cyc' = cyc /\ cur[c].egrp = UNDEF /\ cur'[c].egrp = UNDEF
        /\ \A d \in Core \ {c} : cur'[d] = cur[d] /\ pc'[d] = pc[d] /\ rcv_multi_cnt'[d] = rcv_multi_cnt[d]
    BY <1>13 DEF DispatchExpired, Receive, CoreInv, PostSteps, NoCur, histVars
  <2>3. rcv_multi_cnt' \in [Core -> 0..MaxBatch] BY <1>13, <2>1, ConstAssumption DEF
      DispatchExpired, Receive
  <2>4. ASSUME NEW h \in Group PROVE Held(h)' = Held(h)
    <3>0. ASSUME NEW d \in Core PROVE Holds(d, h)' <=> Holds(d, h)
      <4>1. CASE d = c BY <4>1, <2>2, ConstAssumption DEF Holds
      <4>2. CASE d # c BY <4>2, <2>2 DEF Holds
      <4> QED BY <4>1, <4>2
    <3>1. Holders(h)' = Holders(h) BY <3>0 DEF Holders
    <3>2. c \notin Holders(h) /\ Holders(h) \subseteq Core BY <2>2, ConstAssumption DEF Holders,
        Holds
    <3>3. Slots(Holders(h), rcv_multi_cnt) = Slots(Holders(h), rcv_multi_cnt')
      BY <2>2, <2>3, <3>2, SlotsSame
    <3> QED BY <3>1, <3>3 DEF Held
  <2> QED BY <2>2, <2>4
<1>14. ASSUME NEW c \in Core, NEW n \in 1..CntMax, EventGroupIncrement(c, n)
      PROVE  CountersMatchHolders'
  <2> DEFINE g == cur[c].egrp
  <2>1. /\ g \in Group /\ counts[g].applied /\ counts' = [counts EXCEPT ![g] = AddBoth(@, n)]
        /\ cyc' = cyc /\ pc' = pc /\ cur' = cur /\ rcv_multi_cnt' = rcv_multi_cnt
    BY <1>14 DEF EventGroupIncrement
  <2>2. \A h \in Group : Held(h)' = Held(h) BY <2>1 DEF Held, Holders, Holds
  <2>3. Cardinality(Held(g)) \in Nat BY <2>1, HeldFinite
  <2>4. /\ counts'[g].applied /\ counts'[g].pre = counts[g].pre + n /\ counts'[g].post = counts[g].post + n
        /\ \A h \in Group \ {g} : counts'[h] = counts[h]
    BY <2>1 DEF AddBoth
  <2>5. counts[g].post > 0 /\ counts[g].post = counts[g].pre + Cardinality(Held(g)) BY <2>1
  <2>6. counts[g].pre \in Nat /\ counts[g].post \in Nat /\ n \in Nat BY <2>1
  <2>7. counts'[g].post > 0 /\ counts'[g].post = counts'[g].pre + Cardinality(Held(g))
    BY <2>3, <2>4, <2>5, <2>6
  <2> QED BY <2>1, <2>2, <2>4, <2>7
<1>15. ASSUME NEW c \in Core, NEW g \in Group, EventGroupAssign(c, g) PROVE CountersMatchHolders'
  <2> DEFINE n == rcv_multi_cnt[c]
  <2>1. /\ cyc' = cyc /\ pc' = pc /\ rcv_multi_cnt' = rcv_multi_cnt /\ pc[c] = "rcv" /\ cur[c].egrp = UNDEF
        /\ counts[g].applied /\ counts[g].pre >= n
        /\ counts' = [counts EXCEPT ![g] = TakePre(@, n)]
        /\ cur' = [cur EXCEPT ![c] = [egrp |-> g, gen |-> counts[g].gen, cyc |-> cyc[g]]]
    BY <1>15 DEF EventGroupAssign, histVars
  <2>2. ASSUME NEW h \in Group, h # g PROVE Held(h)' = Held(h)
    <3>1. ASSUME NEW d \in Core PROVE Holds(d, h)' <=> Holds(d, h)
      BY <2>1, <2>2, ConstAssumption DEF Holds
    <3>2. Holders(h)' = Holders(h) BY <3>1 DEF Holders
    <3> QED BY <3>2, <2>1 DEF Held
  <2>3. Cardinality(Held(g)') = Cardinality(Held(g)) + n
    <3>0. ASSUME NEW d \in Core PROVE Holds(d, g)' <=> Holds(d, g) \/ d = c BY <2>1 DEF Holds
    <3>1. Holders(g)' = Holders(g) \cup {c} BY <3>0 DEF Holders
    <3>2. c \notin Holders(g) /\ Holders(g) \in SUBSET Core BY <2>1, ConstAssumption DEF
        Holders, Holds
    <3>3. Cardinality(Slots(Holders(g) \cup {c}, rcv_multi_cnt)) = Cardinality(Slots(Holders(g), rcv_multi_cnt)) + n
      BY <3>2, SlotsAdd
    <3> QED BY <3>1, <3>3, <2>1 DEF Held
  <2>4. Cardinality(Held(g)) \in Nat BY HeldFinite
  <2>5. /\ counts'[g].applied /\ counts'[g].pre = counts[g].pre - n /\ counts'[g].post = counts[g].post
        /\ \A h \in Group \ {g} : counts'[h] = counts[h]
    BY <2>1 DEF TakePre
  <2>6. counts[g].post > 0 /\ counts[g].post = counts[g].pre + Cardinality(Held(g)) BY <2>1
  <2>7. counts[g].pre \in Nat /\ counts[g].post \in Nat /\ n \in Nat BY <2>1, ConstAssumption
  <2>8. counts'[g].post > 0 /\ counts'[g].post = counts'[g].pre + Cardinality(Held(g)')
    BY <2>3, <2>4, <2>5, <2>6, <2>7
  <2> QED BY <2>2, <2>5, <2>8
<1>16. ASSUME NEW c \in Core, EventGroupProcessingEnd(c) PROVE CountersMatchHolders'
  <2>1. \A h \in Group : Held(h)' = Held(h) BY <1>16 DEF EventGroupProcessingEnd, Call,
      NoCounter, histVars, NoNotif, Held, Holders, Holds
  <2> QED BY <1>16, <2>1, ConstAssumption DEF EventGroupProcessingEnd, Call, NoCounter,
      histVars, NoNotif
<1>17. ASSUME NEW c \in Core, ReturnUncounted(c) PROVE CountersMatchHolders'
  <2>1. \A h \in Group : Held(h)' = Held(h) BY <1>17 DEF ReturnUncounted, histVars, NoNotif,
      Held, Holders, Holds
  <2> QED BY <1>17, <2>1, ConstAssumption DEF ReturnUncounted, histVars, NoNotif
<1>18. ASSUME NEW c \in Core, ReturnCounted(c) PROVE CountersMatchHolders'
  <2>1. \A h \in Group : Held(h)' = Held(h) BY <1>18 DEF ReturnCounted, Call, NoCounter,
      histVars, NoNotif, Held, Holders, Holds
  <2> QED BY <1>18, <2>1, ConstAssumption DEF ReturnCounted, Call, NoCounter, histVars, NoNotif
<1>19. ASSUME NEW c \in Core, PostExpired(c) PROVE CountersMatchHolders'
  <2>0. PICK g \in Group : g = op[c].g BY <1>19 DEF PostExpired, CoreInv, PostSteps
  <2>1. /\ g \in Group /\ cur[c].egrp = g /\ counts' = counts /\ cyc' = cyc /\ rcv_multi_cnt' = rcv_multi_cnt
        /\ cur' = [cur EXCEPT ![c] = NoCur] /\ pc' = [pc EXCEPT ![c] = BackToApp(c)] /\ pc[c] = "post_load"
    BY <1>19, <2>0 DEF PostExpired, CountDecrementReturns, CoreInv, PostSteps
  <2>2. counts[g].applied => c \notin Holders(g) BY <1>19, <2>0, ExpiredHoldsNothing
  <2>3. ASSUME NEW h \in Group, counts[h].applied PROVE Held(h)' = Held(h)
    <3>1. c \notin Holders(h)
      <4>1. CASE h = g BY <4>1, <2>2, <2>3
      <4>2. CASE h # g BY <4>2, <2>1 DEF Holders, Holds
      <4> QED BY <4>1, <4>2
    <3>2. ASSUME NEW d \in Core PROVE Holds(d, h)' <=> Holds(d, h)
      BY <3>1, <2>1, ConstAssumption DEF Holders, Holds, NoCur, BackToApp
    <3>3. Holders(h)' = Holders(h) BY <3>2 DEF Holders
    <3> QED BY <3>3, <2>1 DEF Held
  <2> QED BY <2>1, <2>3
<1>20. ASSUME NEW c \in Core, PostLoad(c) PROVE CountersMatchHolders'
  <2>1. \A h \in Group : Held(h)' = Held(h) BY <1>20 DEF PostLoad, ValidPostCnt, Loaded, Call,
      histVars, CoreInv, PostSteps, NoNotif, Held, Holders, Holds
  <2> QED BY <1>20, <2>1, ConstAssumption DEF PostLoad, ValidPostCnt, Loaded, Call, histVars,
      CoreInv, PostSteps, NoNotif
<1>21. ASSUME NEW c \in Core, PostCopy(c) PROVE CountersMatchHolders'
  <2>1. \A h \in Group : Held(h)' = Held(h) BY <1>21 DEF PostCopy, TableReads, BeingWritten,
      Copied, Call, histVars, CoreInv, PostSteps, NoNotif, Held, Holders, Holds
  <2> QED BY <1>21, <2>1, ConstAssumption DEF PostCopy, TableReads, BeingWritten, Copied, Call,
      histVars, CoreInv, PostSteps, NoNotif
<1>22. ASSUME NEW c \in Core, PostRetry(c) PROVE CountersMatchHolders'
  <2>1. \A h \in Group : Held(h)' = Held(h) BY <1>22 DEF PostRetry, SameWord, Copied, Call,
      histVars, CoreInv, PostSteps, NoNotif, Held, Holders, Holds
  <2> QED BY <1>22, <2>1, ConstAssumption DEF PostRetry, SameWord, Copied, Call, histVars,
      CoreInv, PostSteps, NoNotif
<1>23. ASSUME NEW c \in Core, PostCas(c) PROVE CountersMatchHolders'
  <2> DEFINE g == op[c].g
  <2>1. /\ cyc' = cyc /\ rcv_multi_cnt' = rcv_multi_cnt /\ pc[c] = "post_cas"
        /\ counts' = [counts EXCEPT ![g] = DecrementedCounter(op[c].old, op[c].num)]
        /\ pc'[c] = "send" \/ cur'[c].egrp = UNDEF
        /\ \A d \in Core \ {c} : pc'[d] = pc[d] /\ cur'[d] = cur[d]
        /\ pc' \in [Core -> PCs] /\ cur'[c].egrp \in {g, UNDEF}
    BY SMTT(60), <1>23, SwapIsOfTheCycle DEF PostCas, PostSwap, SameWord, DecrementedCounter,
        HandledBy, Handles, CountDecrementReturns, NoCur, BackToApp, NoOp, Call, NoCounter, CoreInv, PostSteps,
        NoNotif, PCs
  <2> QED BY <1>23, <2>1, SwapCounts DEF PostCas
<1>24. ASSUME NEW c \in Core, PostCasLast(c) PROVE CountersMatchHolders'
  <2> DEFINE g == op[c].g
  <2>1. /\ cyc' = cyc /\ rcv_multi_cnt' = rcv_multi_cnt /\ pc[c] = "post_cas"
        /\ counts' = [counts EXCEPT ![g] = DecrementedCounter(op[c].old, op[c].num)]
        /\ pc'[c] = "send" \/ cur'[c].egrp = UNDEF
        /\ \A d \in Core \ {c} : pc'[d] = pc[d] /\ cur'[d] = cur[d]
        /\ pc' \in [Core -> PCs] /\ cur'[c].egrp \in {g, UNDEF}
    BY <1>24, SwapIsOfTheCycle DEF PostCasLast, PostSwap, SameWord, DecrementedCounter,
        HandledBy, Handles, CoreInv, PostSteps, NoNotif, PCs
  <2> QED BY <1>24, <2>1, SwapCounts DEF PostCasLast
<1>25. ASSUME NEW c \in Core, PostCasSilent(c) PROVE CountersMatchHolders'
  <2> DEFINE g == op[c].g
  <2>1. /\ cyc' = cyc /\ rcv_multi_cnt' = rcv_multi_cnt /\ pc[c] = "post_cas"
        /\ counts' = [counts EXCEPT ![g] = DecrementedCounter(op[c].old, op[c].num)]
        /\ pc'[c] = "send" \/ cur'[c].egrp = UNDEF
        /\ \A d \in Core \ {c} : pc'[d] = pc[d] /\ cur'[d] = cur[d]
        /\ pc' \in [Core -> PCs] /\ cur'[c].egrp \in {g, UNDEF}
    BY <1>25, SwapIsOfTheCycle DEF PostCasSilent, PostSwap, SameWord, DecrementedCounter,
        HandledBy, Handles, CountDecrementReturns, NoCur, BackToApp, NoOp, Call, NoCounter, CoreInv,
        PostSteps, NoNotif, PCs
  <2> QED BY <1>25, <2>1, SwapCounts DEF PostCasSilent
<1>26. ASSUME NEW c \in Core, SendNotifs(c) PROVE CountersMatchHolders'
  <2>1. /\ counts' = counts /\ cyc' = cyc /\ rcv_multi_cnt' = rcv_multi_cnt /\ pc[c] = "send"
        /\ cur' = [cur EXCEPT ![c] = NoCur] /\ pc' = [pc EXCEPT ![c] = BackToApp(c)]
    BY <1>26 DEF SendNotifs, CountDecrementReturns
  <2>2. ASSUME NEW h \in Group PROVE Held(h)' = Held(h)
    <3>1. ASSUME NEW d \in Core PROVE Holds(d, h)' <=> Holds(d, h)
      BY <2>1, ConstAssumption DEF Holds, NoCur
    <3>2. Holders(h)' = Holders(h) BY <3>1 DEF Holders
    <3> QED BY <3>2, <2>1 DEF Held
  <2> QED BY <2>1, <2>2
<1>27. ASSUME NEW c \in Core, NEW g \in Group, EventGroupNotif(c, g) PROVE CountersMatchHolders'
  <2>1. \A h \in Group : Held(h)' = Held(h) BY <1>27 DEF EventGroupNotif, AppRuns, Call,
      NoCounter, histVars, NoNotif, Held, Holders, Holds
  <2> QED BY <1>27, <2>1, ConstAssumption DEF EventGroupNotif, AppRuns, Call, NoCounter,
      histVars, NoNotif
<1>28. ASSUME NEW c \in Core, NotifCopy(c) PROVE CountersMatchHolders'
  <2>1. \A h \in Group : Held(h)' = Held(h) BY <1>28 DEF NotifCopy, TableReads, BeingWritten,
      BackToApp, NoOp, Call, NoCounter, histVars, NoNotif, Held, Holders, Holds
  <2> QED BY <1>28, <2>1, ConstAssumption DEF NotifCopy, TableReads, BeingWritten, BackToApp,
      NoOp, Call, NoCounter, histVars, NoNotif
<1>29. ASSUME NEW c \in Core, NEW g \in Group, EventGroupAbort(c, g) PROVE CountersMatchHolders'
  <2>1. /\ counts' = [counts EXCEPT ![g] = ZeroedCounter(@)] /\ cyc' = cyc /\ pc' = pc
        /\ rcv_multi_cnt' = rcv_multi_cnt /\ cur' = [cur EXCEPT ![c] = IF @.egrp = g THEN NoCur ELSE @]
    BY <1>29 DEF EventGroupAbort
  <2>2. ASSUME NEW h \in Group, h # g PROVE Held(h)' = Held(h)
    <3>1. ASSUME NEW d \in Core PROVE Holds(d, h)' <=> Holds(d, h)
      BY <2>1, <2>2, ConstAssumption DEF Holds, NoCur
    <3>2. Holders(h)' = Holders(h) BY <3>1 DEF Holders
    <3> QED BY <3>2, <2>1 DEF Held
  <2> QED BY <2>1, <2>2 DEF ZeroedCounter
<1>30. ASSUME NEW c \in Core, NEW g \in Group, EventGroupAbortLate(c, g) PROVE CountersMatchHolders'
  <2>1. \A h \in Group : Held(h)' = Held(h) BY <1>30 DEF EventGroupAbortLate, AppRuns, histVars,
      NoNotif, Held, Holders, Holds
  <2> QED BY <1>30, <2>1, ConstAssumption DEF EventGroupAbortLate, AppRuns, histVars, NoNotif
<1>31. CASE UNCHANGED vars
  BY <1>31 DEF vars, codeVars, histVars, Held, Holders, Holds, Slots
<1> QED
  BY <1>1, <1>2, <1>3, <1>4, <1>5, <1>6, <1>7, <1>8, <1>9, <1>10, <1>11, <1>12, <1>13, <1>14,
     <1>15, <1>16, <1>17, <1>18, <1>19, <1>20, <1>21, <1>22, <1>23, <1>24, <1>25, <1>26, <1>27,
     <1>28, <1>29, <1>30, <1>31 DEF Next, CoreStep, AppCall, Dispatcher, Dispatch,
     ReceiveReturn, ApplyCas

(* Every step keeps the post-count equal to what is left of the cycle. *)
LEMMA CompletesStep ==
    ASSUME TypeOK, CoreInv, OwnerInv, GenInv, CountersMatchHolders, CompletesWhenAllHandled,
           [Next]_vars
    PROVE  CompletesWhenAllHandled'
<1> USE DEF TypeOK, Counter, OpRec, CompletesWhenAllHandled
<1>1. ASSUME NEW c \in Core, NEW g \in Group, EventGroupCreate(c, g) PROVE CompletesWhenAllHandled'
  BY <1>1, ConstAssumption DEF EventGroupCreate, AppRuns, GroupAlloc, ZeroedCounter, histVars,
     OwnerInv, OwnerSteps, ApplySteps, NoNotif
<1>2. ASSUME NEW c \in Core, NEW g \in Group, EventGroupDelete(c, g) PROVE CompletesWhenAllHandled'
  BY <1>2, ConstAssumption DEF EventGroupDelete, AppRuns, OwnerFree, OwnerSteps, Call, NoCounter,
     histVars, NoNotif
<1>3. ASSUME NEW c \in Core, EventGroupFree(c) PROVE CompletesWhenAllHandled'
  BY <1>3, ConstAssumption DEF EventGroupFree, GroupFree, BackToApp, NoOp, Call, NoCounter,
     histVars, OwnerInv, OwnerSteps, ApplySteps, NoNotif
<1>4. ASSUME NEW c \in Core, NEW g \in Group, NEW n \in 1..CntMax, NEW t \in NotifArgs(g), EventGroupApply(c, g, n, t)
      PROVE  CompletesWhenAllHandled'
  BY <1>4, ConstAssumption DEF EventGroupApply, AppRuns, OwnerFree, OwnerSteps, NoAncientTags,
     NotifArgs, Call, NoCounter, histVars, NoNotif
<1>5. ASSUME NEW c \in Core, ApplyBadState(c) PROVE CompletesWhenAllHandled'
  BY <1>5, ConstAssumption DEF ApplyBadState, BackToApp, NoOp, Call, NoCounter, histVars,
     OwnerInv, OwnerSteps, ApplySteps, NoNotif
<1>6. ASSUME NEW c \in Core, ApplyLoad(c) PROVE CompletesWhenAllHandled'
  BY <1>6, ConstAssumption DEF ApplyLoad, Loaded, Call, histVars, OwnerInv, OwnerSteps,
     ApplySteps, NoNotif
<1>7. ASSUME NEW c \in Core, ApplyWrite(c) PROVE CompletesWhenAllHandled'
  BY <1>7, ConstAssumption DEF ApplyWrite, histVars, OwnerInv, OwnerSteps, ApplySteps, NoNotif
<1>8. ASSUME NEW c \in Core, ApplyStarts(c) PROVE CompletesWhenAllHandled'
  BY <1>8, ConstAssumption DEF ApplyStarts, AppliedCounter, BackToApp, NoOp, Call, NoCounter,
     OwnerInv, OwnerSteps, ApplySteps, NoNotif
<1>9. ASSUME NEW c \in Core, ApplyRetries(c) PROVE CompletesWhenAllHandled'
  BY <1>9, ConstAssumption DEF ApplyRetries, histVars, OwnerInv, OwnerSteps, ApplySteps, NoNotif
<1>10. ASSUME NEW c \in Core, NEW e \in Event, NEW g \in Group \cup {UNDEF}, SendGroup(c, e, g)
      PROVE  CompletesWhenAllHandled'
  BY <1>10, ConstAssumption DEF SendGroup, AppRuns, EgrpTagEvent, histVars, NoNotif
<1>11. ASSUME NEW c \in Core, NEW B \in SUBSET Event, NEW e \in B, DispatchUntagged(c, B, e)
      PROVE  CompletesWhenAllHandled'
  BY <1>11, ConstAssumption DEF DispatchUntagged, Receive, SameEvgroup, NoHdr, histVars, NoNotif
<1>12. ASSUME NEW c \in Core, NEW B \in SUBSET Event, NEW e \in B, DispatchCounted(c, B, e)
      PROVE  CompletesWhenAllHandled'
  BY <1>12, ConstAssumption DEF DispatchCounted, Receive, SameEvgroup, NoHdr, histVars,
     ValidPreCnt, TakePre, NoNotif
<1>13. ASSUME NEW c \in Core, NEW B \in SUBSET Event, NEW e \in B, DispatchExpired(c, B, e)
      PROVE  CompletesWhenAllHandled'
  BY <1>13, ConstAssumption DEF DispatchExpired, Receive, SameEvgroup, NoHdr, histVars,
     ValidPreCnt, NoCur, NoNotif
<1>14. ASSUME NEW c \in Core, NEW n \in 1..CntMax, EventGroupIncrement(c, n)
      PROVE  CompletesWhenAllHandled'
  BY <1>14, ConstAssumption DEF EventGroupIncrement, IncrementFits, AddBoth, NoNotif
<1>15. ASSUME NEW c \in Core, NEW g \in Group, EventGroupAssign(c, g) PROVE CompletesWhenAllHandled'
  BY <1>15, ConstAssumption DEF EventGroupAssign, TakePre, histVars, NoNotif
<1>16. ASSUME NEW c \in Core, EventGroupProcessingEnd(c) PROVE CompletesWhenAllHandled'
  BY <1>16, ConstAssumption DEF EventGroupProcessingEnd, Call, NoCounter, histVars, NoNotif
<1>17. ASSUME NEW c \in Core, ReturnUncounted(c) PROVE CompletesWhenAllHandled'
  BY <1>17, ConstAssumption DEF ReturnUncounted, histVars, NoNotif
<1>18. ASSUME NEW c \in Core, ReturnCounted(c) PROVE CompletesWhenAllHandled'
  BY <1>18, ConstAssumption DEF ReturnCounted, Call, NoCounter, histVars, NoNotif
<1>19. ASSUME NEW c \in Core, PostExpired(c) PROVE CompletesWhenAllHandled'
  <2> DEFINE g == op[c].g
  <2>1. g \in Group /\ cur[c].egrp = g /\ pc[c] = "post_load" BY <1>19 DEF PostExpired, CoreInv,
      PostSteps
  <2>2. ~Handles(c, g) BY <1>19, <2>1, ExpiredHoldsNothing DEF Handles, Holders, Holds
  <2>3. left' = left BY <1>19, <2>2 DEF PostExpired, HandledBy
  <2> QED BY <1>19, <2>3 DEF PostExpired
<1>20. ASSUME NEW c \in Core, PostLoad(c) PROVE CompletesWhenAllHandled'
  BY <1>20, ConstAssumption DEF PostLoad, ValidPostCnt, Loaded, Call, histVars, CoreInv,
     PostSteps, NoNotif
<1>21. ASSUME NEW c \in Core, PostCopy(c) PROVE CompletesWhenAllHandled'
  BY <1>21, ConstAssumption DEF PostCopy, TableReads, BeingWritten, Copied, Call, histVars,
     CoreInv, PostSteps, NoNotif
<1>22. ASSUME NEW c \in Core, PostRetry(c) PROVE CompletesWhenAllHandled'
  BY <1>22, ConstAssumption DEF PostRetry, SameWord, Copied, Call, histVars, CoreInv, PostSteps,
     NoNotif
<1>23. ASSUME NEW c \in Core, PostCas(c) PROVE CompletesWhenAllHandled'
  <2> DEFINE g == op[c].g
  <2>1. /\ g \in Group /\ counts[g].applied /\ cur[c].cyc = cyc[g] /\ counts[g] = op[c].old
    BY <1>23, SwapIsOfTheCycle DEF PostCas
  <2>2. /\ counts' = [counts EXCEPT ![g] = DecrementedCounter(op[c].old, op[c].num)]
        /\ left' = [left EXCEPT ![g] = @ - op[c].num] /\ op[c].old.post # op[c].num
        /\ status' = status
    BY <1>23, <2>1 DEF PostCas, PostSwap, HandledBy, Handles
  <2> QED BY <2>1, <2>2 DEF DecrementedCounter
<1>24. ASSUME NEW c \in Core, PostCasLast(c) PROVE CompletesWhenAllHandled'
  <2> DEFINE g == op[c].g
  <2>1. /\ g \in Group /\ counts[g].applied /\ cur[c].cyc = cyc[g] /\ counts[g] = op[c].old
    BY <1>24, SwapIsOfTheCycle DEF PostCasLast
  <2>2. /\ counts' = [counts EXCEPT ![g] = DecrementedCounter(op[c].old, op[c].num)]
        /\ left' = [left EXCEPT ![g] = @ - op[c].num] /\ op[c].old.post = op[c].num
        /\ status' = [status EXCEPT ![g] = "completed"]
    BY <1>24, <2>1 DEF PostCasLast, PostSwap, HandledBy, Handles
  <2>3. left[g] = op[c].num /\ op[c].num \in Nat BY <2>1, <2>2
  <2>4. left'[g] = 0 /\ status'[g] = "completed" BY <2>1, <2>2, <2>3
  <2>6. ~counts'[g].applied BY <2>1, <2>2 DEF DecrementedCounter
  <2>5. \A h \in Group \ {g} : left'[h] = left[h] /\ status'[h] = status[h] /\ counts'[h] = counts[h]
    BY <2>1, <2>2
  <2> QED BY SMTT(60), <2>4, <2>5, <2>6
<1>25. ASSUME NEW c \in Core, PostCasSilent(c) PROVE CompletesWhenAllHandled'
  <2> DEFINE g == op[c].g
  <2>1. /\ g \in Group /\ counts[g].applied /\ cur[c].cyc = cyc[g] /\ counts[g] = op[c].old
    BY <1>25, SwapIsOfTheCycle DEF PostCasSilent
  <2>2. /\ counts' = [counts EXCEPT ![g] = DecrementedCounter(op[c].old, op[c].num)]
        /\ left' = [left EXCEPT ![g] = @ - op[c].num] /\ op[c].old.post = op[c].num
        /\ status' = [status EXCEPT ![g] = "completed"]
    BY <1>25, <2>1 DEF PostCasSilent, PostSwap, HandledBy, Handles
  <2>3. left[g] = op[c].num /\ op[c].num \in Nat BY <2>1, <2>2
  <2>4. left'[g] = 0 /\ status'[g] = "completed" BY <2>1, <2>2, <2>3
  <2>6. ~counts'[g].applied BY <2>1, <2>2 DEF DecrementedCounter
  <2>5. \A h \in Group \ {g} : left'[h] = left[h] /\ status'[h] = status[h] /\ counts'[h] = counts[h]
    BY <2>1, <2>2
  <2> QED BY SMTT(60), <2>4, <2>5, <2>6
<1>26. ASSUME NEW c \in Core, SendNotifs(c) PROVE CompletesWhenAllHandled'
  BY <1>26, ConstAssumption DEF SendNotifs, CountDecrementReturns, NoCur, BackToApp, NoOp, Call,
     NoCounter, CoreInv, PostSteps, NoNotif
<1>27. ASSUME NEW c \in Core, NEW g \in Group, EventGroupNotif(c, g) PROVE CompletesWhenAllHandled'
  BY <1>27, ConstAssumption DEF EventGroupNotif, AppRuns, Call, NoCounter, histVars, NoNotif
<1>28. ASSUME NEW c \in Core, NotifCopy(c) PROVE CompletesWhenAllHandled'
  BY <1>28, ConstAssumption DEF NotifCopy, TableReads, BeingWritten, BackToApp, NoOp, Call,
     NoCounter, histVars, NoNotif
<1>29. ASSUME NEW c \in Core, NEW g \in Group, EventGroupAbort(c, g) PROVE CompletesWhenAllHandled'
  BY <1>29, ConstAssumption DEF EventGroupAbort, AppRuns, ZeroedCounter, NoCur, NoNotif
<1>30. ASSUME NEW c \in Core, NEW g \in Group, EventGroupAbortLate(c, g)
      PROVE  CompletesWhenAllHandled'
  BY <1>30, ConstAssumption DEF EventGroupAbortLate, AppRuns, histVars, NoNotif
<1>31. CASE UNCHANGED vars
  BY <1>31 DEF vars, codeVars, histVars
<1> QED
  BY <1>1, <1>2, <1>3, <1>4, <1>5, <1>6, <1>7, <1>8, <1>9, <1>10, <1>11, <1>12, <1>13, <1>14,
     <1>15, <1>16, <1>17, <1>18, <1>19, <1>20, <1>21, <1>22, <1>23, <1>24, <1>25, <1>26, <1>27,
     <1>28, <1>29, <1>30, <1>31 DEF Next, CoreStep, AppCall, Dispatcher, Dispatch,
     ReceiveReturn, ApplyCas

(* Every step keeps the table of a running cycle, and the copies that may still be sent. *)
LEMMA TableStep ==
    ASSUME TypeOK, CoreInv, OwnerInv, GenInv, TableInv,
           [Next]_vars
    PROVE  TableInv'
<1> USE DEF TypeOK, Counter, OpRec, TableInv, NoNotif
<1>1. ASSUME NEW c \in Core, NEW g \in Group, EventGroupCreate(c, g) PROVE TableInv'
  BY <1>1, ConstAssumption DEF EventGroupCreate, AppRuns, GroupAlloc, ZeroedCounter, histVars,
     CoreInv, PostSteps, OwnerInv, OwnerSteps, ApplySteps
<1>2. ASSUME NEW c \in Core, NEW g \in Group, EventGroupDelete(c, g) PROVE TableInv'
  BY <1>2, ConstAssumption DEF EventGroupDelete, AppRuns, OwnerFree, OwnerSteps, Call, NoCounter,
     histVars, CoreInv, PostSteps, OwnerInv, ApplySteps
<1>3. ASSUME NEW c \in Core, EventGroupFree(c) PROVE TableInv'
  BY <1>3, ConstAssumption DEF EventGroupFree, GroupFree, BackToApp, NoOp, Call, NoCounter,
     histVars, CoreInv, PostSteps, OwnerInv, OwnerSteps, ApplySteps
<1>4. ASSUME NEW c \in Core, NEW g \in Group, NEW n \in 1..CntMax, NEW t \in NotifArgs(g), EventGroupApply(c, g, n, t)
      PROVE  TableInv'
  BY <1>4, ConstAssumption DEF EventGroupApply, AppRuns, OwnerFree, OwnerSteps, NoAncientTags,
     NotifArgs, Call, NoCounter, histVars, CoreInv, PostSteps, OwnerInv, ApplySteps
<1>5. ASSUME NEW c \in Core, ApplyBadState(c) PROVE TableInv'
  BY <1>5, ConstAssumption DEF ApplyBadState, BackToApp, NoOp, Call, NoCounter, histVars,
     CoreInv, PostSteps, OwnerInv, OwnerSteps, ApplySteps
<1>6. ASSUME NEW c \in Core, ApplyLoad(c) PROVE TableInv'
  BY <1>6, ConstAssumption DEF ApplyLoad, Loaded, Call, histVars, CoreInv, PostSteps, OwnerInv,
     OwnerSteps, ApplySteps
<1>7. ASSUME NEW c \in Core, ApplyWrite(c) PROVE TableInv'
  BY <1>7, ConstAssumption DEF ApplyWrite, histVars, CoreInv, PostSteps, OwnerInv, OwnerSteps,
     ApplySteps
<1>8. ASSUME NEW c \in Core, ApplyStarts(c) PROVE TableInv'
  <2>0. PICK g \in Group : g = op[c].g BY <1>8 DEF ApplyStarts, OwnerInv, OwnerSteps
  <2>1. /\ pc[c] = "apply_cas" /\ notif' = notif /\ cur' = cur /\ counts[g].applied = FALSE
        /\ counts' = [counts EXCEPT ![g] = AppliedCounter(op[c].old, op[c].num)]
        /\ cyc' = [cyc EXCEPT ![g] = @ + 1] /\ registered' = registered \cup {<<g, cyc[g] + 1, op[c].tbl>>}
        /\ pc' = [pc EXCEPT ![c] = BackToApp(c)] /\ op' = [op EXCEPT ![c] = NoOp]
    BY <1>8, <2>0 DEF ApplyStarts, OwnerInv, OwnerSteps
  <2>2. ASSUME NEW d \in Core, pc'[d] = "apply_cas" PROVE notif'[op'[d].g] = op'[d].tbl
    BY <2>1, <2>2 DEF BackToApp
  <2>3. ASSUME NEW h \in Group, counts'[h].applied PROVE <<h, cyc'[h], notif'[h]>> \in registered'
    <3>1. CASE h = g BY <3>1, <2>0, <2>1
    <3>2. CASE h # g BY <3>2, <2>1, <2>3
    <3> QED BY <3>1, <3>2
  <2>4. ASSUME NEW d \in Core, pc'[d] = "post_cas", op'[d].old.post = op'[d].num,
               cur'[d].cyc = cyc'[op'[d].g], counts'[op'[d].g].applied
        PROVE  op'[d].tbl = notif'[op'[d].g]
    <3>1. d # c /\ pc[d] = "post_cas" /\ op'[d] = op[d] /\ op[d].g \in Group /\ cur[d].egrp = op[d].g
      BY <2>4, <2>1 DEF BackToApp, CoreInv, PostSteps
    <3>2. op[d].g # g
      <4> SUFFICES ASSUME op[d].g = g PROVE FALSE OBVIOUS
      <4>1. cur[d].cyc <= cyc[g] /\ cur[d].cyc \in Nat /\ cyc[g] \in Nat BY <3>1 DEF GenInv,
          InWindow
      <4>2. cur[d].cyc = cyc[g] + 1 BY <2>4, <2>1, <3>1
      <4> QED BY <4>1, <4>2
    <3> QED BY <3>1, <3>2, <2>1, <2>4
  <2> QED BY <2>2, <2>3, <2>4
<1>9. ASSUME NEW c \in Core, ApplyRetries(c) PROVE TableInv'
  BY <1>9, ConstAssumption DEF ApplyRetries, histVars, CoreInv, PostSteps, OwnerInv, OwnerSteps,
     ApplySteps
<1>10. ASSUME NEW c \in Core, NEW e \in Event, NEW g \in Group \cup {UNDEF}, SendGroup(c, e, g)
      PROVE  TableInv'
  BY <1>10, ConstAssumption DEF SendGroup, AppRuns, EgrpTagEvent, histVars, CoreInv, PostSteps,
     OwnerInv, OwnerSteps, ApplySteps
<1>11. ASSUME NEW c \in Core, NEW B \in SUBSET Event, NEW e \in B, DispatchUntagged(c, B, e)
      PROVE  TableInv'
  BY <1>11, ConstAssumption DEF DispatchUntagged, Receive, SameEvgroup, NoHdr, histVars, CoreInv,
     PostSteps, OwnerInv, OwnerSteps, ApplySteps
<1>12. ASSUME NEW c \in Core, NEW B \in SUBSET Event, NEW e \in B, DispatchCounted(c, B, e)
      PROVE  TableInv'
  BY <1>12, ConstAssumption DEF DispatchCounted, Receive, SameEvgroup, NoHdr, histVars,
     ValidPreCnt, TakePre, CoreInv, PostSteps, OwnerInv, OwnerSteps, ApplySteps
<1>13. ASSUME NEW c \in Core, NEW B \in SUBSET Event, NEW e \in B, DispatchExpired(c, B, e)
      PROVE  TableInv'
  BY <1>13, ConstAssumption DEF DispatchExpired, Receive, SameEvgroup, NoHdr, histVars,
     ValidPreCnt, NoCur, CoreInv, PostSteps, OwnerInv, OwnerSteps, ApplySteps
<1>14. ASSUME NEW c \in Core, NEW n \in 1..CntMax, EventGroupIncrement(c, n) PROVE TableInv'
  BY <1>14, ConstAssumption DEF EventGroupIncrement, IncrementFits, AddBoth, CoreInv, PostSteps,
     OwnerInv, OwnerSteps, ApplySteps
<1>15. ASSUME NEW c \in Core, NEW g \in Group, EventGroupAssign(c, g) PROVE TableInv'
  BY <1>15, ConstAssumption DEF EventGroupAssign, TakePre, histVars, CoreInv, PostSteps,
     OwnerInv, OwnerSteps, ApplySteps
<1>16. ASSUME NEW c \in Core, EventGroupProcessingEnd(c) PROVE TableInv'
  BY <1>16, ConstAssumption DEF EventGroupProcessingEnd, Call, NoCounter, histVars, CoreInv,
     PostSteps, OwnerInv, OwnerSteps, ApplySteps
<1>17. ASSUME NEW c \in Core, ReturnUncounted(c) PROVE TableInv'
  BY <1>17, ConstAssumption DEF ReturnUncounted, histVars, CoreInv, PostSteps, OwnerInv,
     OwnerSteps, ApplySteps
<1>18. ASSUME NEW c \in Core, ReturnCounted(c) PROVE TableInv'
  BY <1>18, ConstAssumption DEF ReturnCounted, Call, NoCounter, histVars, CoreInv, PostSteps,
     OwnerInv, OwnerSteps, ApplySteps
<1>19. ASSUME NEW c \in Core, PostExpired(c) PROVE TableInv'
  BY <1>19, ConstAssumption DEF PostExpired, ValidPostCnt, CountDecrementReturns, NoCur,
     BackToApp, NoOp, Call, NoCounter, HandledBy, Handles, CoreInv, PostSteps, OwnerInv, OwnerSteps,
     ApplySteps
<1>20. ASSUME NEW c \in Core, PostLoad(c) PROVE TableInv'
  BY <1>20, ConstAssumption DEF PostLoad, ValidPostCnt, Loaded, Call, histVars, CoreInv,
     PostSteps, OwnerInv, OwnerSteps, ApplySteps
<1>21. ASSUME NEW c \in Core, PostCopy(c) PROVE TableInv'
  BY <1>21, ConstAssumption DEF PostCopy, TableReads, BeingWritten, Copied, Call, histVars,
     CoreInv, PostSteps, OwnerInv, OwnerSteps, ApplySteps
<1>22. ASSUME NEW c \in Core, PostRetry(c) PROVE TableInv'
  BY <1>22, ConstAssumption DEF PostRetry, SameWord, Copied, Call, histVars, CoreInv, PostSteps,
     OwnerInv, OwnerSteps, ApplySteps
<1>23. ASSUME NEW c \in Core, PostCas(c) PROVE TableInv'
  BY <1>23, ConstAssumption DEF PostCas, PostSwap, SameWord, DecrementedCounter, HandledBy,
     Handles, CountDecrementReturns, NoCur, BackToApp, NoOp, Call, NoCounter, CoreInv, PostSteps,
     OwnerInv, OwnerSteps, ApplySteps
<1>24. ASSUME NEW c \in Core, PostCasLast(c) PROVE TableInv'
  BY <1>24, ConstAssumption DEF PostCasLast, PostSwap, SameWord, DecrementedCounter, HandledBy,
     Handles, CoreInv, PostSteps, OwnerInv, OwnerSteps, ApplySteps
<1>25. ASSUME NEW c \in Core, PostCasSilent(c) PROVE TableInv'
  BY <1>25, ConstAssumption DEF PostCasSilent, PostSwap, SameWord, DecrementedCounter, HandledBy,
     Handles, CountDecrementReturns, NoCur, BackToApp, NoOp, Call, NoCounter, CoreInv, PostSteps,
     OwnerInv, OwnerSteps, ApplySteps
<1>26. ASSUME NEW c \in Core, SendNotifs(c) PROVE TableInv'
  BY <1>26, ConstAssumption DEF SendNotifs, CountDecrementReturns, NoCur, BackToApp, NoOp, Call,
     NoCounter, CoreInv, PostSteps, OwnerInv, OwnerSteps, ApplySteps
<1>27. ASSUME NEW c \in Core, NEW g \in Group, EventGroupNotif(c, g) PROVE TableInv'
  BY <1>27, ConstAssumption DEF EventGroupNotif, AppRuns, Call, NoCounter, histVars, CoreInv,
     PostSteps, OwnerInv, OwnerSteps, ApplySteps
<1>28. ASSUME NEW c \in Core, NotifCopy(c) PROVE TableInv'
  BY <1>28, ConstAssumption DEF NotifCopy, TableReads, BeingWritten, BackToApp, NoOp, Call,
     NoCounter, histVars, CoreInv, PostSteps, OwnerInv, OwnerSteps, ApplySteps
<1>29. ASSUME NEW c \in Core, NEW g \in Group, EventGroupAbort(c, g) PROVE TableInv'
  BY <1>29, ConstAssumption DEF EventGroupAbort, AppRuns, ZeroedCounter, NoCur, CoreInv,
     PostSteps, OwnerInv, OwnerSteps, ApplySteps
<1>30. ASSUME NEW c \in Core, NEW g \in Group, EventGroupAbortLate(c, g) PROVE TableInv'
  BY <1>30, ConstAssumption DEF EventGroupAbortLate, AppRuns, histVars, CoreInv, PostSteps,
     OwnerInv, OwnerSteps, ApplySteps
<1>31. CASE UNCHANGED vars
  BY <1>31 DEF vars, codeVars, histVars
<1> QED
  BY <1>1, <1>2, <1>3, <1>4, <1>5, <1>6, <1>7, <1>8, <1>9, <1>10, <1>11, <1>12, <1>13, <1>14,
     <1>15, <1>16, <1>17, <1>18, <1>19, <1>20, <1>21, <1>22, <1>23, <1>24, <1>25, <1>26, <1>27,
     <1>28, <1>29, <1>30, <1>31 DEF Next, CoreStep, AppCall, Dispatcher, Dispatch,
     ReceiveReturn, ApplyCas

(* Most steps leave the fate of the cycles and the senders alone. *)
Quiet ==
    /\ UNCHANGED <<cyc, status, registered, sent, aborted>>
    /\ \A d \in Core : pc'[d] = "send" => pc[d] = "send" /\ op'[d] = op[d] /\ cur'[d] = cur[d]

(* ... all but these do. *)
LEMMA QuietStep ==
    ASSUME TypeOK, CoreInv,
           [Next]_vars
    PROVE  \/ Quiet
           \/ \E c \in Core : ApplyStarts(c) \/ PostCasLast(c) \/ PostCasSilent(c) \/ SendNotifs(c)
           \/ \E c \in Core, g \in Group : EventGroupAbort(c, g)
<1> USE DEF TypeOK, Quiet
<1>1. ASSUME NEW c \in Core, NEW g \in Group, EventGroupCreate(c, g) PROVE Quiet
  BY <1>1, ConstAssumption DEF EventGroupCreate, AppRuns, GroupAlloc, ZeroedCounter, histVars
<1>2. ASSUME NEW c \in Core, NEW g \in Group, EventGroupDelete(c, g) PROVE Quiet
  BY <1>2, ConstAssumption DEF EventGroupDelete, AppRuns, OwnerFree, OwnerSteps, Call, NoCounter,
     histVars
<1>3. ASSUME NEW c \in Core, EventGroupFree(c) PROVE Quiet
  BY <1>3, ConstAssumption DEF EventGroupFree, GroupFree, BackToApp, NoOp, Call, NoCounter,
     histVars
<1>4. ASSUME NEW c \in Core, NEW g \in Group, NEW n \in 1..CntMax, NEW t \in NotifArgs(g), EventGroupApply(c, g, n, t)
      PROVE  Quiet
  BY <1>4, ConstAssumption DEF EventGroupApply, AppRuns, OwnerFree, OwnerSteps, NoAncientTags,
     NotifArgs, Call, NoCounter, histVars
<1>5. ASSUME NEW c \in Core, ApplyBadState(c) PROVE Quiet
  BY <1>5, ConstAssumption DEF ApplyBadState, BackToApp, NoOp, Call, NoCounter, histVars
<1>6. ASSUME NEW c \in Core, ApplyLoad(c) PROVE Quiet
  BY <1>6, ConstAssumption DEF ApplyLoad, Loaded, Call, histVars
<1>7. ASSUME NEW c \in Core, ApplyWrite(c) PROVE Quiet
  BY <1>7, ConstAssumption DEF ApplyWrite, histVars
<1>8. ASSUME NEW c \in Core, ApplyRetries(c) PROVE Quiet
  BY <1>8, ConstAssumption DEF ApplyRetries, histVars
<1>9. ASSUME NEW c \in Core, NEW e \in Event, NEW g \in Group \cup {UNDEF}, SendGroup(c, e, g)
      PROVE  Quiet
  BY <1>9, ConstAssumption DEF SendGroup, AppRuns, EgrpTagEvent, histVars
<1>10. ASSUME NEW c \in Core, NEW B \in SUBSET Event, NEW e \in B, DispatchUntagged(c, B, e)
      PROVE  Quiet
  BY <1>10, ConstAssumption DEF DispatchUntagged, Receive, SameEvgroup, NoHdr, histVars
<1>11. ASSUME NEW c \in Core, NEW B \in SUBSET Event, NEW e \in B, DispatchCounted(c, B, e)
      PROVE  Quiet
  BY <1>11, ConstAssumption DEF DispatchCounted, Receive, SameEvgroup, NoHdr, histVars,
     ValidPreCnt, TakePre
<1>12. ASSUME NEW c \in Core, NEW B \in SUBSET Event, NEW e \in B, DispatchExpired(c, B, e)
      PROVE  Quiet
  BY <1>12, ConstAssumption DEF DispatchExpired, Receive, SameEvgroup, NoHdr, histVars,
     ValidPreCnt, NoCur
<1>13. ASSUME NEW c \in Core, NEW n \in 1..CntMax, EventGroupIncrement(c, n) PROVE Quiet
  BY <1>13, ConstAssumption DEF EventGroupIncrement, IncrementFits, AddBoth
<1>14. ASSUME NEW c \in Core, NEW g \in Group, EventGroupAssign(c, g) PROVE Quiet
  BY <1>14, ConstAssumption DEF EventGroupAssign, TakePre, histVars
<1>15. ASSUME NEW c \in Core, EventGroupProcessingEnd(c) PROVE Quiet
  BY <1>15, ConstAssumption DEF EventGroupProcessingEnd, Call, NoCounter, histVars
<1>16. ASSUME NEW c \in Core, ReturnUncounted(c) PROVE Quiet
  BY <1>16, ConstAssumption DEF ReturnUncounted, histVars
<1>17. ASSUME NEW c \in Core, ReturnCounted(c) PROVE Quiet
  BY <1>17, ConstAssumption DEF ReturnCounted, Call, NoCounter, histVars
<1>18. ASSUME NEW c \in Core, PostExpired(c) PROVE Quiet
  BY <1>18, ConstAssumption DEF PostExpired, ValidPostCnt, CountDecrementReturns, NoCur,
     BackToApp, NoOp, Call, NoCounter, HandledBy, Handles, CoreInv, PostSteps, NoNotif
<1>19. ASSUME NEW c \in Core, PostLoad(c) PROVE Quiet
  BY <1>19, ConstAssumption DEF PostLoad, ValidPostCnt, Loaded, Call, histVars, CoreInv,
     PostSteps, NoNotif
<1>20. ASSUME NEW c \in Core, PostCopy(c) PROVE Quiet
  BY <1>20, ConstAssumption DEF PostCopy, TableReads, BeingWritten, Copied, Call, histVars,
     CoreInv, PostSteps, NoNotif
<1>21. ASSUME NEW c \in Core, PostRetry(c) PROVE Quiet
  BY <1>21, ConstAssumption DEF PostRetry, SameWord, Copied, Call, histVars, CoreInv, PostSteps,
     NoNotif
<1>22. ASSUME NEW c \in Core, PostCas(c) PROVE Quiet
  BY <1>22, ConstAssumption DEF PostCas, PostSwap, SameWord, DecrementedCounter, HandledBy,
     Handles, CountDecrementReturns, NoCur, BackToApp, NoOp, Call, NoCounter, CoreInv, PostSteps,
     NoNotif
<1>23. ASSUME NEW c \in Core, NEW g \in Group, EventGroupNotif(c, g) PROVE Quiet
  BY <1>23, ConstAssumption DEF EventGroupNotif, AppRuns, Call, NoCounter, histVars
<1>24. ASSUME NEW c \in Core, NotifCopy(c) PROVE Quiet
  BY <1>24, ConstAssumption DEF NotifCopy, TableReads, BeingWritten, BackToApp, NoOp, Call,
     NoCounter, histVars
<1>25. ASSUME NEW c \in Core, NEW g \in Group, EventGroupAbortLate(c, g) PROVE Quiet
  BY <1>25, ConstAssumption DEF EventGroupAbortLate, AppRuns, histVars
<1>26. CASE UNCHANGED vars
  BY <1>26 DEF vars, codeVars, histVars
<1> QED
  BY <1>1, <1>2, <1>3, <1>4, <1>5, <1>6, <1>7, <1>8, <1>9, <1>10, <1>11, <1>12, <1>13, <1>14,
     <1>15, <1>16, <1>17, <1>18, <1>19, <1>20, <1>21, <1>22, <1>23, <1>24, <1>25, <1>26 DEF
     Next, CoreStep, AppCall, Dispatcher, Dispatch, ReceiveReturn, ApplyCas

(* Every step leaves the cycles in sent and aborted ended. *)
LEMMA EndedStep ==
    ASSUME TypeOK, CoreInv, OwnerInv, GenInv, CountersMatchHolders, CompletesWhenAllHandled, EndedInv,
           [Next]_vars
    PROVE  EndedInv'
<1> USE DEF TypeOK, Counter, OpRec, EndedInv, Ended, NoNotif
<1>1. ASSUME NEW c \in Core, ApplyStarts(c) PROVE EndedInv'
  <2>0. PICK g \in Group : g = op[c].g BY <1>1 DEF ApplyStarts, OwnerInv, OwnerSteps
  <2>1. /\ sent' = sent /\ aborted' = aborted /\ cur' = cur /\ pc[c] = "apply_cas"
        /\ cyc' = [cyc EXCEPT ![g] = @ + 1] /\ status' = [status EXCEPT ![g] = "active"]
        /\ pc' = [pc EXCEPT ![c] = BackToApp(c)] /\ op' = [op EXCEPT ![c] = NoOp]
    BY <1>1, <2>0 DEF ApplyStarts
  <2>2. ASSUME NEW h \in Group, NEW k \in Nat, NEW how, Ended(h, k, how) PROVE Ended(h, k, how)'
    BY <2>1, <2>2
  <2>3. \A d \in Core : pc'[d] = "send" => pc[d] = "send" /\ op'[d] = op[d] BY <2>1 DEF BackToApp
  <2> HIDE DEF Ended
  <2>4. \A s \in sent : Ended(s[1], s[2], "completed")' BY <2>1, <2>2
  <2>5. \A a \in aborted : Ended(a[1], a[2], "aborted")' BY <2>1, <2>2
  <2>6. ASSUME NEW d \in Core, pc'[d] = "send" PROVE Ended(op[d].g, cur[d].cyc, "completed")'
    <3>1. PICK h \in Group, k \in Nat : h = op[d].g /\ k = cur[d].cyc BY <2>3, <2>6 DEF CoreInv,
        PostSteps
    <3>2. Ended(h, k, "completed")' BY <3>1, <2>2, <2>3, <2>6
    <3> QED BY <3>1, <3>2, <2>1, <2>3, <2>6 DEF Ended
  <2> QED BY <2>1, <2>3, <2>4, <2>5, <2>6
<1>2. ASSUME NEW c \in Core, PostCasLast(c) PROVE EndedInv'
  <2> DEFINE g == op[c].g
  <2>1. g \in Group /\ counts[g].applied /\ cur[c].cyc = cyc[g] BY <1>2, SwapIsOfTheCycle DEF
      PostCasLast
  <2>2. status[g] = "active" BY <2>1 DEF CompletesWhenAllHandled
  <2> QED BY <1>2, <2>1, <2>2 DEF PostCasLast, PostSwap, SameWord, DecrementedCounter,
      HandledBy, Handles, CoreInv, PostSteps
<1>3. ASSUME NEW c \in Core, PostCasSilent(c) PROVE EndedInv'
  <2> DEFINE g == op[c].g
  <2>1. g \in Group /\ counts[g].applied /\ cur[c].cyc = cyc[g] BY <1>3, SwapIsOfTheCycle DEF
      PostCasSilent
  <2>2. status[g] = "active" BY <2>1 DEF CompletesWhenAllHandled
  <2> QED BY <1>3, <2>1, <2>2 DEF PostCasSilent, PostSwap, SameWord, DecrementedCounter,
      HandledBy, Handles, CountDecrementReturns, NoCur, BackToApp, NoOp, Call, NoCounter, CoreInv,
      PostSteps
<1>4. ASSUME NEW c \in Core, SendNotifs(c) PROVE EndedInv'
  BY <1>4, ConstAssumption DEF SendNotifs, CountDecrementReturns, NoCur, BackToApp, NoOp, Call,
     NoCounter, CoreInv, PostSteps
<1>5. ASSUME NEW c \in Core, NEW g \in Group, EventGroupAbort(c, g) PROVE EndedInv'
  <2>1. status[g] = "active" BY <1>5 DEF EventGroupAbort, CompletesWhenAllHandled
  <2> QED BY <1>5, <2>1 DEF EventGroupAbort, AppRuns, ZeroedCounter, NoCur
<1>6. CASE Quiet BY <1>6 DEF Quiet
<1> QED BY <1>1, <1>2, <1>3, <1>4, <1>5, <1>6, QuietStep

(* Every step sends only the table of the cycle. *)
LEMMA NotifsStep ==
    ASSUME TypeOK, CoreInv, OwnerInv, GenInv, CountersMatchHolders, CompletesWhenAllHandled, TableInv, NotifsOfTheirCycle,
           [Next]_vars
    PROVE  NotifsOfTheirCycle'
<1> USE DEF TypeOK, Counter, OpRec, NotifsOfTheirCycle, NoNotif
<1>1. ASSUME NEW c \in Core, ApplyStarts(c) PROVE NotifsOfTheirCycle'
  BY <1>1, ConstAssumption DEF ApplyStarts, AppliedCounter, BackToApp, NoOp, Call, NoCounter,
     OwnerInv, OwnerSteps, ApplySteps
<1>2. ASSUME NEW c \in Core, PostCasLast(c) PROVE NotifsOfTheirCycle'
  <2> DEFINE g == op[c].g
  <2>1. g \in Group /\ counts[g].applied /\ cur[c].cyc = cyc[g] BY <1>2, SwapIsOfTheCycle DEF
      PostCasLast
  <2>2. op[c].tbl = notif[g] /\ <<g, cyc[g], notif[g]>> \in registered
    BY <1>2, <2>1 DEF PostCasLast, PostSwap, TableInv
  <2> QED BY <1>2, <2>1, <2>2 DEF PostCasLast, PostSwap
<1>3. ASSUME NEW c \in Core, PostCasSilent(c) PROVE NotifsOfTheirCycle'
  BY <1>3, ConstAssumption DEF PostCasSilent, PostSwap, SameWord, DecrementedCounter, HandledBy,
     Handles, CountDecrementReturns, NoCur, BackToApp, NoOp, Call, NoCounter, CoreInv, PostSteps
<1>4. ASSUME NEW c \in Core, SendNotifs(c) PROVE NotifsOfTheirCycle'
  BY <1>4, ConstAssumption DEF SendNotifs, CountDecrementReturns, NoCur, BackToApp, NoOp, Call,
     NoCounter, CoreInv, PostSteps
<1>5. ASSUME NEW c \in Core, NEW g \in Group, EventGroupAbort(c, g) PROVE NotifsOfTheirCycle'
  BY <1>5, ConstAssumption DEF EventGroupAbort, AppRuns, ZeroedCounter, NoCur
<1>6. CASE Quiet BY <1>6 DEF Quiet
<1> QED BY <1>1, <1>2, <1>3, <1>4, <1>5, <1>6, QuietStep

(* Every step leaves at most one sender per cycle, and none after the send. *)
LEMMA SentOnceStep ==
    ASSUME TypeOK, CoreInv, OwnerInv, GenInv, CountersMatchHolders, CompletesWhenAllHandled, EndedInv, NotifsSentOnce,
           [Next]_vars
    PROVE  NotifsSentOnce'
<1> USE DEF TypeOK, Counter, OpRec, NotifsSentOnce, NoNotif
<1>1. ASSUME NEW c \in Core, ApplyStarts(c) PROVE NotifsSentOnce'
  BY <1>1, ConstAssumption DEF ApplyStarts, AppliedCounter, BackToApp, NoOp, Call, NoCounter,
     OwnerInv, OwnerSteps, ApplySteps
<1>2. ASSUME NEW c \in Core, PostCasLast(c) PROVE NotifsSentOnce'
  <2> DEFINE g == op[c].g
  <2>1. g \in Group /\ counts[g].applied /\ cur[c].cyc = cyc[g] BY <1>2, SwapIsOfTheCycle DEF
      PostCasLast
  <2>2. status[g] = "active" /\ cyc[g] \in Nat BY <2>1 DEF CompletesWhenAllHandled
  <2>3. ASSUME NEW s \in sent, s[1] = g, s[2] = cyc[g] PROVE FALSE
    <3>1. Ended(g, cyc[g], "completed") BY <2>3 DEF EndedInv
    <3> QED BY <3>1, <2>2 DEF Ended
  <2>4. ASSUME NEW d \in Core, pc[d] = "send", op[d].g = g, cur[d].cyc = cyc[g] PROVE FALSE
    <3>1. Ended(g, cyc[g], "completed") BY <2>4 DEF EndedInv
    <3> QED BY <3>1, <2>2 DEF Ended
  <2> QED BY <1>2, <2>1, <2>3, <2>4 DEF PostCasLast, PostSwap
<1>3. ASSUME NEW c \in Core, PostCasSilent(c) PROVE NotifsSentOnce'
  BY <1>3, ConstAssumption DEF PostCasSilent, PostSwap, SameWord, DecrementedCounter, HandledBy,
     Handles, CountDecrementReturns, NoCur, BackToApp, NoOp, Call, NoCounter, CoreInv, PostSteps
<1>4. ASSUME NEW c \in Core, SendNotifs(c) PROVE NotifsSentOnce'
  BY <1>4, ConstAssumption DEF SendNotifs, CountDecrementReturns, NoCur, BackToApp, NoOp, Call,
     NoCounter, CoreInv, PostSteps
<1>5. ASSUME NEW c \in Core, NEW g \in Group, EventGroupAbort(c, g) PROVE NotifsSentOnce'
  BY <1>5, ConstAssumption DEF EventGroupAbort, AppRuns, ZeroedCounter, NoCur
<1>6. CASE Quiet BY <1>6 DEF Quiet
<1> QED BY <1>1, <1>2, <1>3, <1>4, <1>5, <1>6, QuietStep

(* Every step keeps aborted cycles without notification. *)
LEMMA AbortedStep ==
    ASSUME TypeOK, CoreInv, OwnerInv, GenInv, CountersMatchHolders, CompletesWhenAllHandled, EndedInv, AbortedNotNotified,
           [Next]_vars
    PROVE  AbortedNotNotified'
<1> USE DEF TypeOK, Counter, OpRec, AbortedNotNotified, NoNotif
<1>1. ASSUME NEW c \in Core, ApplyStarts(c) PROVE AbortedNotNotified'
  BY <1>1, ConstAssumption DEF ApplyStarts, AppliedCounter, BackToApp, NoOp, Call, NoCounter,
     OwnerInv, OwnerSteps, ApplySteps
<1>2. ASSUME NEW c \in Core, PostCasLast(c) PROVE AbortedNotNotified'
  <2> DEFINE g == op[c].g
  <2>1. g \in Group /\ counts[g].applied /\ cur[c].cyc = cyc[g] BY <1>2, SwapIsOfTheCycle DEF
      PostCasLast
  <2>2. status[g] = "active" /\ cyc[g] \in Nat BY <2>1 DEF CompletesWhenAllHandled
  <2>3. ASSUME <<g, cyc[g]>> \in aborted PROVE FALSE
    <3>1. Ended(g, cyc[g], "aborted") BY <2>3 DEF EndedInv
    <3> QED BY <3>1, <2>2 DEF Ended
  <2> QED BY <1>2, <2>1, <2>3 DEF PostCasLast, PostSwap
<1>3. ASSUME NEW c \in Core, PostCasSilent(c) PROVE AbortedNotNotified'
  BY <1>3, ConstAssumption DEF PostCasSilent, PostSwap, SameWord, DecrementedCounter, HandledBy,
     Handles, CountDecrementReturns, NoCur, BackToApp, NoOp, Call, NoCounter, CoreInv, PostSteps
<1>4. ASSUME NEW c \in Core, SendNotifs(c) PROVE AbortedNotNotified'
  BY <1>4, ConstAssumption DEF SendNotifs, CountDecrementReturns, NoCur, BackToApp, NoOp, Call,
     NoCounter, CoreInv, PostSteps
<1>5. ASSUME NEW c \in Core, NEW g \in Group, EventGroupAbort(c, g) PROVE AbortedNotNotified'
  <2>1. status[g] = "active" /\ cyc[g] \in Nat BY <1>5 DEF EventGroupAbort, CompletesWhenAllHandled
  <2>2. ASSUME NEW s \in sent, s[1] = g, s[2] = cyc[g] PROVE FALSE
    <3>1. Ended(g, cyc[g], "completed") BY <2>2 DEF EndedInv
    <3> QED BY <3>1, <2>1 DEF Ended
  <2>3. ASSUME NEW d \in Core, pc[d] = "send", op[d].g = g, cur[d].cyc = cyc[g] PROVE FALSE
    <3>1. Ended(g, cyc[g], "completed") BY <2>3 DEF EndedInv
    <3> QED BY <3>1, <2>1 DEF Ended
  <2>4. /\ sent' = sent /\ pc' = pc /\ op' = op /\ aborted' = aborted \cup {<<g, cyc[g]>>}
        /\ \A d \in Core : pc[d] = "send" => cur'[d] = cur[d]
    BY <1>5 DEF EventGroupAbort, AppRuns
  <2> QED BY <2>2, <2>3, <2>4
<1>6. CASE Quiet BY <1>6 DEF Quiet
<1> QED BY <1>1, <1>2, <1>3, <1>4, <1>5, <1>6, QuietStep

-----------------------------------------------------------------------------
(* After event_group_init() everything is at rest. *)
LEMMA InitIInv == Init => IInv
<1> SUFFICES ASSUME Init PROVE IInv OBVIOUS
<1> USE ConstAssumption DEF Init, NoCounter, NoHdr, NoCur, NoOp, Call, NoNotif
<1>1. TypeOK BY DEF TypeOK, Counter, OpRec, Tables, PCs, Torn
<1>2. GenInv
  <2>1. 0 % GenMod = 0 OBVIOUS
  <2> QED BY <2>1 DEF GenInv, InWindow, ApplySteps
<1>3. CoreInv BY DEF CoreInv, PostSteps
<1>4. OwnerInv BY DEF OwnerInv, OwnerSteps
<1>5. CountersMatchHolders /\ CompletesWhenAllHandled
  BY DEF CountersMatchHolders, CompletesWhenAllHandled
<1>6. TableInv /\ EndedInv BY DEF TableInv, EndedInv
<1>7. NotifsOfTheirCycle /\ NotifsSentOnce /\ AbortedNotNotified
  BY DEF NotifsOfTheirCycle, NotifsSentOnce, AbortedNotNotified
<1> QED BY <1>1, <1>2, <1>3, <1>4, <1>5, <1>6, <1>7 DEF IInv

\* Every step keeps the inductive invariant.
LEMMA NextIInv == IInv /\ [Next]_vars => IInv'
BY TypeStep, CoreInvStep, OwnerInvStep, GenInvStep, CountersStep, CompletesStep, TableStep,
   EndedStep, NotifsStep, SentOnceStep, AbortedStep DEF IInv

(* The inductive invariant of event groups. *)
THEOREM Invariance == Spec => []IInv
BY InitIInv, NextIInv, PTL DEF Spec

(* Types and widths: no interleaving of apply, increment and decrement      *)
(* overflows EGRP_CNT_MAX or goes below zero.                               *)
THEOREM TypeCorrect == Spec => []TypeOK
<1>1. IInv => TypeOK BY DEF IInv
<1> QED BY <1>1, Invariance, PTL

(* An applied group's counters differ by exactly the events inside          *)
(* EO-receive functions.                                                    *)
THEOREM CountersCorrect == Spec => []CountersMatchHolders
<1>1. IInv => CountersMatchHolders BY DEF IInv
<1> QED BY <1>1, Invariance, PTL

(* A group completes when, and only when, all events of its cycle were      *)
(* handled.                                                                 *)
THEOREM CompletionCorrect == Spec => []CompletesWhenAllHandled
<1>1. IInv => CompletesWhenAllHandled BY DEF IInv
<1> QED BY <1>1, Invariance, PTL

(* An expired event never passes the comparison of generations. *)
THEOREM StaleCorrect == Spec => []StaleNeverCounts
<1>1. IInv => StaleNeverCounts
  <2> SUFFICES ASSUME IInv, NEW c \in Core, NEW g \in Group, cur[c].egrp = g, counts[g].gen = cur[c].gen
               PROVE  cur[c].cyc = cyc[g]
    BY DEF StaleNeverCounts
  <2>1. InWindow(cur[c], g) /\ counts[g].gen = cyc[g] % GenMod BY DEF IInv, GenInv
  <2>2. cur[c].cyc \in Nat /\ cyc[g] \in Nat BY DEF IInv, TypeOK
  <2>3. cur[c].cyc <= cyc[g] /\ cyc[g] < cur[c].cyc + GenMod /\ cur[c].cyc % GenMod = cyc[g] % GenMod
    BY <2>1 DEF InWindow
  <2> QED BY <2>2, <2>3, GenSeparates
<1> QED BY <1>1, Invariance, PTL

(* When a notification is sent its group can be applied again. *)
THEOREM ReadyCorrect == Spec => []ReadyWhenNotified
<1>1. IInv => ReadyWhenNotified
  <2> SUFFICES ASSUME IInv, NEW g \in Group, counts[g].applied
               PROVE  /\ \A s \in sent : s[1] = g => s[2] # cyc[g]
                      /\ \A c \in Core : pc[c] = "send" /\ op[c].g = g => cur[c].cyc # cyc[g]
    BY DEF ReadyWhenNotified
  <2>1. status[g] = "active" /\ cyc[g] \in Nat BY DEF IInv, CompletesWhenAllHandled, TypeOK
  <2> QED BY <2>1 DEF IInv, EndedInv, Ended
<1> QED BY <1>1, Invariance, PTL

(* The notifications sent are those of the completed cycle, sent once, not  *)
(* for an aborted one, and when the group can be applied again.             *)
THEOREM NotifsCorrect == Spec => []NotifsRight
<1>1. IInv => NotifsOfTheirCycle /\ NotifsSentOnce /\ AbortedNotNotified BY DEF IInv
<1> QED BY <1>1, Invariance, ReadyCorrect, PTL DEF NotifsRight

-----------------------------------------------------------------------------
(* Most steps are invisible to an application that watches the cycles. *)
Invisible ==
    /\ UNCHANGED <<cyc, status, left, sent>>
    /\ \A d \in Core : /\ pc'[d] = "send" <=> pc[d] = "send"
                       /\ pc[d] = "send" => op'[d] = op[d] /\ cur'[d] = cur[d]

(* ... all but these are. *)
LEMMA InvisibleStep ==
    ASSUME TypeOK, CoreInv, GenInv, CountersMatchHolders, CompletesWhenAllHandled,
           [Next]_vars
    PROVE  \/ Invisible
           \/ \E c \in Core : ApplyStarts(c) \/ PostCas(c) \/ PostCasLast(c) \/ PostCasSilent(c)
                              \/ SendNotifs(c)
           \/ \E c \in Core, n \in 1..CntMax : EventGroupIncrement(c, n)
           \/ \E c \in Core, g \in Group : EventGroupAbort(c, g)
<1> USE DEF TypeOK, Invisible
<1>1. ASSUME NEW c \in Core, NEW g \in Group, EventGroupCreate(c, g) PROVE Invisible
  BY <1>1, ConstAssumption DEF EventGroupCreate, AppRuns, GroupAlloc, ZeroedCounter, histVars
<1>2. ASSUME NEW c \in Core, NEW g \in Group, EventGroupDelete(c, g) PROVE Invisible
  BY <1>2, ConstAssumption DEF EventGroupDelete, AppRuns, OwnerFree, OwnerSteps, Call, NoCounter,
     histVars
<1>3. ASSUME NEW c \in Core, EventGroupFree(c) PROVE Invisible
  BY <1>3, ConstAssumption DEF EventGroupFree, GroupFree, BackToApp, NoOp, Call, NoCounter,
     histVars
<1>4. ASSUME NEW c \in Core, NEW g \in Group, NEW n \in 1..CntMax, NEW t \in NotifArgs(g), EventGroupApply(c, g, n, t)
      PROVE  Invisible
  BY <1>4, ConstAssumption DEF EventGroupApply, AppRuns, OwnerFree, OwnerSteps, NoAncientTags,
     NotifArgs, Call, NoCounter, histVars
<1>5. ASSUME NEW c \in Core, ApplyBadState(c) PROVE Invisible
  BY <1>5, ConstAssumption DEF ApplyBadState, BackToApp, NoOp, Call, NoCounter, histVars
<1>6. ASSUME NEW c \in Core, ApplyLoad(c) PROVE Invisible
  BY <1>6, ConstAssumption DEF ApplyLoad, Loaded, Call, histVars
<1>7. ASSUME NEW c \in Core, ApplyWrite(c) PROVE Invisible
  BY <1>7, ConstAssumption DEF ApplyWrite, histVars
<1>8. ASSUME NEW c \in Core, ApplyRetries(c) PROVE Invisible
  BY <1>8, ConstAssumption DEF ApplyRetries, histVars
<1>9. ASSUME NEW c \in Core, NEW e \in Event, NEW g \in Group \cup {UNDEF}, SendGroup(c, e, g)
      PROVE  Invisible
  BY <1>9, ConstAssumption DEF SendGroup, AppRuns, EgrpTagEvent, histVars
<1>10. ASSUME NEW c \in Core, NEW B \in SUBSET Event, NEW e \in B, DispatchUntagged(c, B, e)
      PROVE  Invisible
  BY <1>10, ConstAssumption DEF DispatchUntagged, Receive, SameEvgroup, NoHdr, histVars
<1>11. ASSUME NEW c \in Core, NEW B \in SUBSET Event, NEW e \in B, DispatchCounted(c, B, e)
      PROVE  Invisible
  BY <1>11, ConstAssumption DEF DispatchCounted, Receive, SameEvgroup, NoHdr, histVars,
     ValidPreCnt, TakePre
<1>12. ASSUME NEW c \in Core, NEW B \in SUBSET Event, NEW e \in B, DispatchExpired(c, B, e)
      PROVE  Invisible
  BY <1>12, ConstAssumption DEF DispatchExpired, Receive, SameEvgroup, NoHdr, histVars,
     ValidPreCnt, NoCur
<1>14. ASSUME NEW c \in Core, NEW g \in Group, EventGroupAssign(c, g) PROVE Invisible
  BY <1>14, ConstAssumption DEF EventGroupAssign, TakePre, histVars
<1>15. ASSUME NEW c \in Core, EventGroupProcessingEnd(c) PROVE Invisible
  BY <1>15, ConstAssumption DEF EventGroupProcessingEnd, Call, NoCounter, histVars
<1>16. ASSUME NEW c \in Core, ReturnUncounted(c) PROVE Invisible
  BY <1>16, ConstAssumption DEF ReturnUncounted, histVars
<1>17. ASSUME NEW c \in Core, ReturnCounted(c) PROVE Invisible
  BY <1>17, ConstAssumption DEF ReturnCounted, Call, NoCounter, histVars
<1>18. ASSUME NEW c \in Core, PostExpired(c) PROVE Invisible
  <2> DEFINE g == op[c].g
  <2>1. g \in Group /\ cur[c].egrp = g /\ pc[c] = "post_load" BY <1>18 DEF PostExpired, CoreInv,
      PostSteps
  <2>2. ~Handles(c, g)
    BY <1>18, <2>1, ExpiredHoldsNothing DEF Handles, Holders, Holds, CompletesWhenAllHandled
  <2>3. left' = left BY <1>18, <2>2 DEF PostExpired, HandledBy
  <2> QED BY <1>18, <2>1, <2>3 DEF PostExpired, CountDecrementReturns, BackToApp
<1>19. ASSUME NEW c \in Core, PostLoad(c) PROVE Invisible
  BY <1>19, ConstAssumption DEF PostLoad, ValidPostCnt, Loaded, Call, histVars, CoreInv,
     PostSteps, NoNotif
<1>20. ASSUME NEW c \in Core, PostCopy(c) PROVE Invisible
  BY <1>20, ConstAssumption DEF PostCopy, TableReads, BeingWritten, Copied, Call, histVars,
     CoreInv, PostSteps, NoNotif
<1>21. ASSUME NEW c \in Core, PostRetry(c) PROVE Invisible
  BY <1>21, ConstAssumption DEF PostRetry, SameWord, Copied, Call, histVars, CoreInv, PostSteps,
     NoNotif
<1>23. ASSUME NEW c \in Core, NEW g \in Group, EventGroupNotif(c, g) PROVE Invisible
  BY <1>23, ConstAssumption DEF EventGroupNotif, AppRuns, Call, NoCounter, histVars
<1>24. ASSUME NEW c \in Core, NotifCopy(c) PROVE Invisible
  BY <1>24, ConstAssumption DEF NotifCopy, TableReads, BeingWritten, BackToApp, NoOp, Call,
     NoCounter, histVars
<1>25. ASSUME NEW c \in Core, NEW g \in Group, EventGroupAbortLate(c, g) PROVE Invisible
  BY <1>25, ConstAssumption DEF EventGroupAbortLate, AppRuns, histVars
<1>26. CASE UNCHANGED vars
  BY <1>26 DEF vars, codeVars, histVars
<1> QED
  BY <1>1, <1>2, <1>3, <1>4, <1>5, <1>6, <1>7, <1>8, <1>9, <1>10, <1>11, <1>12, <1>14,
     <1>15, <1>16, <1>17, <1>18, <1>19, <1>20, <1>21, <1>23, <1>24, <1>25, <1>26 DEF
     Next, CoreStep, AppCall, Dispatcher, Dispatch, ReceiveReturn, ApplyCas

(* What the senders and the sent notifications are for ForkJoin. *)
LEMMA InvisiblePending == Invisible => Pending' = Pending /\ Notified' = Notified
BY DEF Invisible, Pending, Notified

(* A running cycle has neither a sender nor a notification. *)
LEMMA RunningNotNotified ==
    ASSUME TypeOK, CompletesWhenAllHandled, EndedInv, NEW g \in Group, status[g] = "active"
    PROVE  <<g, cyc[g]>> \notin Pending \cup Notified
<1>1. cyc[g] \in Nat BY DEF TypeOK
<1>2. ASSUME NEW s \in sent, s[1] = g, s[2] = cyc[g] PROVE FALSE
  <2>1. Ended(g, cyc[g], "completed") BY <1>2 DEF EndedInv
  <2> QED BY <2>1, <1>1 DEF Ended
<1>3. ASSUME NEW d \in Core, pc[d] = "send", op[d].g = g, cur[d].cyc = cyc[g] PROVE FALSE
  <2>1. Ended(g, cyc[g], "completed") BY <1>3 DEF EndedInv
  <2> QED BY <2>1, <1>1 DEF Ended
<1> QED BY <1>2, <1>3 DEF Pending, Notified

(* Every step of the cores is a step of a cycle, or invisible. *)
LEMMA RefinementStep == IInv /\ [Next]_vars => [FJ!Next]_(FJ!fjVars)
<1> SUFFICES ASSUME IInv, [Next]_vars PROVE [FJ!Next]_(FJ!fjVars) OBVIOUS
<1> USE DEF IInv
<1>1. CASE Invisible
  BY <1>1, InvisiblePending DEF Invisible, FJ!fjVars
<1>2. ASSUME NEW c \in Core, ApplyStarts(c) PROVE FJ!Next
  <2> DEFINE g == op[c].g
  <2>1. g \in Group /\ ~counts[g].applied /\ op[c].num \in 1..CntMax
    BY <1>2 DEF ApplyStarts, OwnerInv, OwnerSteps, ApplySteps
  <2>2. status[g] # "active" BY <2>1 DEF CompletesWhenAllHandled
  <2>3. \A d \in Core : /\ pc'[d] = "send" <=> pc[d] = "send"
                        /\ pc[d] = "send" => op'[d] = op[d] /\ cur'[d] = cur[d]
    BY <1>2 DEF ApplyStarts, BackToApp, TypeOK
  <2>4. Pending' = Pending BY <2>3 DEF Pending
  <2>5. Notified' = Notified BY <1>2 DEF ApplyStarts, Notified
  <2>6. left' = [left EXCEPT ![g] = op[c].num] /\ left \in [Group -> Int]
    BY <1>2 DEF ApplyStarts, TypeOK
  <2>7. left'[g] = op[c].num /\ left'[g] > 0 BY <2>1, <2>6, ConstAssumption
  <2>8. FJ!Apply(g)
    BY <1>2, <2>2, <2>4, <2>5, <2>6, <2>7 DEF ApplyStarts, FJ!Apply
  <2> QED BY <2>1, <2>8 DEF FJ!Next
<1>3. ASSUME NEW c \in Core, PostCas(c) PROVE FJ!Next
  <2> DEFINE g == op[c].g
  <2>1. /\ g \in Group /\ counts[g].applied /\ cur[c].cyc = cyc[g] /\ counts[g] = op[c].old
        /\ op[c].num \in Nat \ {0} /\ op[c].old.post >= op[c].num
    BY <1>3, SwapIsOfTheCycle DEF PostCas
  <2>2. status[g] = "active" /\ counts[g].post = left[g] BY <2>1 DEF CompletesWhenAllHandled
  <2>3. left' = [left EXCEPT ![g] = @ - op[c].num] /\ op[c].old.post # op[c].num
    BY <1>3, <2>1, <2>2 DEF PostCas, PostSwap, HandledBy, Handles
  <2>4. left'[g] = left[g] - op[c].num /\ left[g] \in Int BY <2>1, <2>3 DEF TypeOK
  <2>5. 0 < left'[g] /\ left'[g] < left[g] BY <2>1, <2>2, <2>3, <2>4
  <2>6. \A d \in Core : /\ pc'[d] = "send" <=> pc[d] = "send"
                        /\ pc[d] = "send" => op'[d] = op[d] /\ cur'[d] = cur[d]
    BY <1>3 DEF PostCas, PostSwap, CountDecrementReturns, BackToApp, TypeOK
  <2>7. Pending' = Pending BY <2>6 DEF Pending
  <2>8. Notified' = Notified BY <1>3 DEF PostCas, PostSwap, Notified
  <2>9. FJ!Handle(g)
    BY <1>3, <2>2, <2>3, <2>4, <2>5, <2>7, <2>8 DEF PostCas, PostSwap, FJ!Handle
  <2> QED BY <2>1, <2>9 DEF FJ!Next
<1>4. ASSUME NEW c \in Core, PostSwap(c), op[c].old.post = op[c].num,
             status' = [status EXCEPT ![op[c].g] = "completed"],
             Pending' \in {Pending, Pending \cup {<<op[c].g, cur[c].cyc>>}}
      PROVE  FJ!Next
  <2> DEFINE g == op[c].g
  <2>1. /\ g \in Group /\ counts[g].applied /\ cur[c].cyc = cyc[g] /\ counts[g] = op[c].old
        /\ op[c].num \in Nat \ {0}
    BY <1>4, SwapIsOfTheCycle
  <2>2. status[g] = "active" /\ left[g] = op[c].num BY <1>4, <2>1 DEF CompletesWhenAllHandled
  <2>3. left' = [left EXCEPT ![g] = @ - op[c].num]
    BY <1>4, <2>1, <2>2 DEF PostSwap, HandledBy, Handles
  <2>4. left' = [left EXCEPT ![g] = 0]
    <3>1. left[g] - op[c].num = 0 BY <2>1, <2>2
    <3> QED BY <2>3, <3>1
  <2>5. <<g, cyc[g]>> \notin Pending \cup Notified BY <2>1, <2>2, RunningNotNotified
  <2>6. Notified' = Notified BY <1>4 DEF PostSwap, Notified
  <2>7. FJ!Complete(g)
    BY <1>4, <2>1, <2>2, <2>4, <2>5, <2>6 DEF PostSwap, FJ!Complete
  <2> QED BY <2>1, <2>7 DEF FJ!Next
<1>5. ASSUME NEW c \in Core, PostCasLast(c) PROVE FJ!Next
  <2>1. /\ pc'[c] = "send" /\ op' = op /\ cur' = cur
        /\ \A d \in Core \ {c} : pc'[d] = pc[d]
    BY <1>5 DEF PostCasLast, PostSwap, TypeOK
  <2>2. Pending' = Pending \cup {<<op[c].g, cur[c].cyc>>} BY <2>1 DEF Pending
  <2> QED BY <1>4, <1>5, <2>2 DEF PostCasLast
<1>6. ASSUME NEW c \in Core, PostCasSilent(c) PROVE FJ!Next
  <2>1. \A d \in Core : /\ pc'[d] = "send" <=> pc[d] = "send"
                        /\ pc[d] = "send" => op'[d] = op[d] /\ cur'[d] = cur[d]
    BY <1>6 DEF PostCasSilent, PostSwap, CountDecrementReturns, BackToApp, TypeOK
  <2>2. Pending' = Pending BY <2>1 DEF Pending
  <2> QED BY <1>4, <1>6, <2>2 DEF PostCasSilent
<1>7. ASSUME NEW c \in Core, SendNotifs(c) PROVE FJ!Next
  <2> DEFINE p == <<op[c].g, cur[c].cyc>>
  <2>1. p \in Pending BY <1>7 DEF SendNotifs, Pending
  <2>2. p \notin Notified BY <1>7 DEF SendNotifs, Notified, NotifsSentOnce
  <2>3. /\ pc'[c] # "send"
        /\ \A d \in Core \ {c} : pc'[d] = pc[d] /\ op'[d] = op[d] /\ cur'[d] = cur[d]
    BY <1>7 DEF SendNotifs, CountDecrementReturns, BackToApp, TypeOK
  <2>4. \A d \in Core \ {c} : pc[d] = "send" => <<op[d].g, cur[d].cyc>> # p
    BY <1>7 DEF SendNotifs, NotifsSentOnce
  <2>5. Pending' = Pending \ {p} BY <2>3, <2>4 DEF Pending
  <2>6. Notified' = Notified \cup {p}
    <3>1. sent' = sent \cup {<<op[c].g, cur[c].cyc, op[c].tbl>>} BY <1>7 DEF SendNotifs
    <3>2. \A x \in Notified' : x \in Notified \cup {p} BY <3>1 DEF Notified
    <3>3. \A x \in Notified : x \in Notified' BY <3>1 DEF Notified
    <3>4. p \in Notified'
      <4> DEFINE t == <<op[c].g, cur[c].cyc, op[c].tbl>>
      <4>1. t \in sent' /\ <<t[1], t[2]>> = p BY <3>1
      <4> HIDE DEF t, p
      <4> QED BY <4>1 DEF Notified
    <3> QED BY <3>2, <3>3, <3>4
  <2>7. FJ!Notify(p) BY <1>7, <2>1, <2>2, <2>5, <2>6 DEF SendNotifs, FJ!Notify
  <2> QED BY <2>1, <2>7 DEF FJ!Next
<1>8. ASSUME NEW c \in Core, NEW n \in 1..CntMax, EventGroupIncrement(c, n) PROVE FJ!Next
  <2> DEFINE g == cur[c].egrp
  <2>1. g \in Group /\ counts[g].applied BY <1>8 DEF EventGroupIncrement, TypeOK
  <2>2. status[g] = "active" BY <2>1 DEF CompletesWhenAllHandled
  <2>3. left' = [left EXCEPT ![g] = @ + n] /\ left[g] \in Int
    BY <1>8, <2>1 DEF EventGroupIncrement, TypeOK
  <2>4. left'[g] = left[g] + n /\ left'[g] > left[g] BY <2>1, <2>3, ConstAssumption DEF TypeOK
  <2>5. Pending' = Pending /\ Notified' = Notified
    BY <1>8 DEF EventGroupIncrement, Pending, Notified
  <2>6. FJ!Increment(g)
    BY <1>8, <2>2, <2>3, <2>4, <2>5 DEF EventGroupIncrement, FJ!Increment
  <2> QED BY <2>1, <2>6 DEF FJ!Next
<1>9. ASSUME NEW c \in Core, NEW g \in Group, EventGroupAbort(c, g) PROVE FJ!Next
  <2>1. status[g] = "active" BY <1>9 DEF EventGroupAbort, CompletesWhenAllHandled
  <2>2. \A d \in Core : pc'[d] = pc[d] /\ op'[d] = op[d] /\ (pc[d] = "send" => cur'[d] = cur[d])
    BY <1>9 DEF EventGroupAbort, AppRuns, TypeOK
  <2>3. Pending' = Pending BY <2>2 DEF Pending
  <2>4. Notified' = Notified BY <1>9 DEF EventGroupAbort, Notified
  <2>5. FJ!Abort(g) BY <1>9, <2>1, <2>3, <2>4 DEF EventGroupAbort, FJ!Abort
  <2> QED BY <2>5 DEF FJ!Next
<1> QED BY <1>1, <1>2, <1>3, <1>5, <1>6, <1>7, <1>8, <1>9, InvisibleStep

(* Event groups implement fork and join: whatever the cores do to the       *)
(* counter words and tables, an application sees cycles that start, are     *)
(* handled, complete or are aborted once, and are notified once after their *)
(* completion.                                                              *)
THEOREM Refinement == Spec => ImplementsForkJoin
<1>1. Init => FJ!Init
  BY DEF Init, FJ!Init, Pending, Notified
<1> QED BY <1>1, RefinementStep, Invariance, PTL DEF Spec, ImplementsForkJoin, FJ!Spec
=============================================================================
