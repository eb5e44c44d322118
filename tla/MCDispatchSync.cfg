\* EO receive functions make synchronous calls while in an event group.
CONSTANTS
  SchedQ = {"q1", "q2"}
  LocalQ = {"l1", "l2"}
  NoQ = "none"
  Prio <- MCPrio
  MultiRcv = {"q2", "l2"}
  MaxEvents = 2
  Groups = {"g"}
  NoGrp = "none"
  Budget <- MCBudget
  LocalBurst = 2
  MaxPrefetch = 2
  Opts <- MCOpts
  UserFn = TRUE
  CallbackDrops = TRUE
  MayStop = {"q1", "l2"}
  SyncInGroup = TRUE
  MaxCalls = 2
  MaxCtrl = 1
  Fns = {"f1", "f2"}
  NULL = "NULL"
  CbMax = 2
  NumTbl = 3
  Readers = {"r1", "r2"}
  Writers = {"w1"}
  ReadersKeepUp = TRUE
  MaxUpdates = 0
  OutCores = {"c1", "c2"}
  NoCore = "none"
  Contexts = 3
  MaxOut = 2
  DeqMax = 2
  Builds = {FALSE, TRUE}
  MayDelete = TRUE
SPECIFICATION Spec
CHECK_DEADLOCK FALSE
INVARIANT
  GroupCountedOnce
