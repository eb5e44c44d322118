\* Fair cores: operations, synchronous calls and terminations end; two cores
\* with two queue groups start, dispatch and terminate, then EM does.
SPECIFICATION LiveSpec
CONSTANTS
  NumCores = 2
  Dyn = {g}
  Default = Default
  CoreGroup <- MCCoreGroup
  CoreGroups = FALSE
  MaxOps = 3
  MaxTerms = 2
  MayFail = {}
  Synchronized = TRUE
  TermExcl = TRUE
  External = FALSE
  Thr = {1, 2}
  MainThr = 0
  NoThr = 9
  QGroups = {1, 2}
  DefaultGrp = 1
  WithQueues = {1, 2}
  Evs = {1, 2}
  MaxTaken = 2
  FlushOrphans = TRUE
  SameThread = FALSE
  QuietMoves = TRUE
  InitFails = TRUE
  TermFails = {"pool"}
  MaxStarts = 3
  MaxInits = 1
CHECK_DEADLOCK FALSE
INVARIANTS
  LifecycleInv
  TermReachesAllEvents
PROPERTIES
  CallsComplete
  FlushTakesItsOwn
  TerminationEnds
