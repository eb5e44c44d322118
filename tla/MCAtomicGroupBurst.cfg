CONSTANTS
  c1 = c1  c2 = c2  c3 = c3
  q1 = q1  q2 = q2  q3 = q3
  g1 = g1  g2 = g2
  Cores = {c1, c2}
  Queues = {q1}
  Group = {}
  Hi = {}
  Multi = {q1}
  MaxEvents = 2
  Tags = {g1, g2}
  MaxBurst = 4
  AgMaxBurst = 4
  StashSize = 2
  NumEvents = 5
  Stoppable = {}
  None = None
SPECIFICATION Spec
CHECK_DEADLOCK FALSE
INVARIANT ExclusiveReceive
