CONSTANTS
  c1 = c1
  c2 = c2
  e1 = e1
  e2 = e2
  Cores = {c1, c2}
  Events = {e1, e2}
  Packets = {e1}
  Prealloc = TRUE
  EVGEN_INIT = 2
  EVGEN_MAX = 5
  Width = 8
  MaxRefs = 2
  RevertRace = FALSE
  RefsInVectors = FALSE
SPECIFICATION Spec
SYMMETRY Symmetric
CHECK_DEADLOCK FALSE
INVARIANTS
  EsvInv
  NoFalseAlarm
  MisuseReported
