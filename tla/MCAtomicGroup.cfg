CONSTANTS
  c1 = c1  c2 = c2  c3 = c3
  q1 = q1  q2 = q2  q3 = q3
  g1 = g1  g2 = g2
  Cores = {c1, c2, c3}
  Queues = {q1, q2, q3}
  Group = {q1, q2}
  Hi = {q2}
  Multi = {q1}
  MaxEvents = 2
  Tags = {g1}
  MaxBurst = 2
  AgMaxBurst = 2
  StashSize = 1
  NumEvents = 3
  Stoppable = {{q1, q2}}
  None = None
SPECIFICATION Spec
CHECK_DEADLOCK FALSE
INVARIANTS
  AtomicGroupInv
  ExclusiveReceive
PROPERTIES
  ReceivesInOrder
  Delivered
