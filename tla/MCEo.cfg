SPECIFICATION FairSpec
CONSTANTS
  NumCores = 2
  Ext = {9}
  EOs = {e1}
  Queues = {q1}
  NoEo = NoEo
  NoQ = NoQ
  Up = {e1}
  AsyncIn = {"main", "rcv"}
  SyncIn = {"main"}
  Orderly = TRUE
  Callers = {0, 9}
  MayFail = {"stash", "global", "local", "remq"}
  MaxOps = 3
  MaxSends = 1
  MaxMoves = 2
CHECK_DEADLOCK FALSE
INVARIANTS EoSettled StopIsLast ReceiveAllowed
PROPERTIES NothingTooEarly OpsComplete
