\* Create, modify and delete one group on two threads, which terminate and start
\* again as EM-cores or as external threads; the application orders its operations.
SPECIFICATION Spec
CONSTANTS
  NumCores = 2
  Dyn = {g}
  Default = Default
  CoreGroup <- MCCoreGroup
  CoreGroups = FALSE
  MaxOps = 4
  MaxTerms = 2
  MayFail = {"term"}
  Synchronized = TRUE
  TermExcl = TRUE
  External = TRUE
INVARIANTS
  GroupsSettled
  OwnRequestsOnly
  TerminatedIsGone
PROPERTIES
  CoreMapStable
