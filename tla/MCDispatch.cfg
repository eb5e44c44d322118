\* One core with two scheduled and two local queues, one of each with a
\* multi-event receive function; a ring of three callback tables; an ordered
\* queue with three contexts on two cores.
CONSTANTS
  SchedQ = {"q1", "q2"}
  LocalQ = {"l1", "l2"}
  NoQ = "none"
  Prio <- MCPrio
  MultiRcv = {"q2", "l2"}
  MaxEvents = 2
  Groups = {"g"}
  NoGrp = "none"
  Budget <- MCBudget
  LocalBurst = 2
  MaxPrefetch = 3
  Opts <- MCOpts
  UserFn = TRUE
  CallbackDrops = TRUE
  MayStop = {"q1", "l2"}
  SyncInGroup = FALSE
  MaxCalls = 2
  MaxCtrl = 1
  Fns = {"f1", "f2"}
  NULL = "NULL"
  CbMax = 2
  NumTbl = 3
  Readers = {"r1", "r2"}
  Writers = {"w1"}
  ReadersKeepUp = TRUE
  MaxUpdates = 4
  OutCores = {"c1", "c2"}
  NoCore = "none"
  Contexts = 3
  MaxOut = 2
  DeqMax = 2
  Builds = {FALSE, TRUE}
  MayDelete = TRUE
SPECIFICATION Spec
CHECK_DEADLOCK FALSE
INVARIANTS
  DispatchInv
  GroupCountedOnce
  HooksInv
  OutputInv
PROPERTIES
  LocalInTime
