SPECIFICATION Spec
CONSTANTS
  Requests = {r1, r2}
  Roles = {a1}
  Hours = {0, 1}
  Rates = {2}
  Revenue = {0, 3}
  Items = {"control", "escalation"}
  Files <- MCFiles
  None = none
SYMMETRY RequestSymmetry
CHECK_DEADLOCK FALSE
INVARIANTS
  LocksAreExact
  SilentChangesExplained
