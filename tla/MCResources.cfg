CONSTANTS
  NumCores = 2
  NumPools = 3
  NumLists = 2
  OdpIdx = {0, 1, 2, 3}
  Cfgs <- MCCfgs
  Startups <- MCStartups
  PoolFails = TRUE
  Exclusive = TRUE
  MaxCreates = 2
  Slots = {0, 1, 2}
  NumTmos = {1, 2}
  Shared = TRUE
  SharedSize = 4
  MayFail = {"odp_pool", "tmo_pool"}
  RingWithin = TRUE
  c1 = c1
  c2 = c2
  t1 = t1
  e1 = e1
  e2 = e2
  Cores = {c1, c2}
  Tmos = {t1}
  Events = {e1, e2}
  NoTmo = NoTmo
  NoEv = NoEv
  Kinds = {"oneshot", "skip", "noskip", "ring"}
  Period = 2
  Near = 1
  AckTries = 2
  Mults = {1, 2}
  MaxPend = 2
  MaxTick = 6
  MaxSets = 2
  QCores = {k1, k2}
  StaticQ = {0}
  DynQ = {1, 2}
  AggrQ = {3, 4}
  NoQueue = NoQueue
  MaxOutput = 2
  Params <- MCParams
  MaxAggr = 2
  QFails = {"odp", "aggr", "context", "destroy"}
  DeleteAgain = FALSE
  DeletePktin = FALSE
  PrioNum = 8
  MaxPrio = 9
  MaxQueueOps = 3
SPECIFICATION Spec
CHECK_DEADLOCK FALSE
INVARIANTS
  PoolInv
  QueueInv
  TimersInv
  TimeoutInv
PROPERTIES
  ArmsNextSlot
  CancelSettles
