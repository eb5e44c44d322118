\* The application does not order its operations on the group, and allocations
\* and sends fail at any point.
SPECIFICATION Spec
CONSTANTS
  NumCores = 2
  Dyn = {g}
  Default = Default
  CoreGroup <- MCCoreGroup
  CoreGroups = FALSE
  MaxOps = 3
  MaxTerms = 0
  MayFail = {"op"}
  Synchronized = FALSE
  TermExcl = TRUE
  External = FALSE
INVARIANTS
  OwnRequestsOnly
